---------------------------- MODULE Spec2Model ----------------------------
(***************************************************************************)
(* A model of the Pythagorean chord tool: the chord-sequence parser, the   *)
(* chord validator and the tuning engine (PythagoreanTuning), the MIDI     *)
(* exporter (js/parser.js), the AudioPlayer (lib/audio.ts) and the page    *)
(* with its chord builder, Parse & Display, Play, Stop and dark mode.      *)
(*                                                                         *)
(* Text is modelled as a sequence of one-character strings, so that        *)
(* trim, indexOf, split, startsWith and the regular expressions of the     *)
(* source are computed on characters.  JavaScript numbers are modelled as  *)
(* tagged values: a finite decimal m / 10^e, a fraction n / d, NaN or      *)
(* Infinity.                                                               *)
(***************************************************************************)
EXTENDS Integers, Sequences, FiniteSets, TLC

VARIABLES
  input,        \* parseChordSequence: the text handed to the call
  lines,        \* parseChordSequence: input.split('\n')
  i,            \* parseChordSequence: the loop index (0-based)
  chords,       \* parseChordSequence: the local list being built
  lineResult,   \* outcome of the last parseChordLine call
  examined,     \* number of parseChordLine calls made so far
  pc,           \* position of the call: start, loop, returned, thrown, idle
  result,       \* value returned by parseChordSequence (None before/without)
  error,        \* message of the Error thrown by parseChordSequence
  vchord,       \* validateChord: the chord object handed to the call
  vresult,      \* validateChord: pending / true / error message
  interval,     \* tuning: the interval token handed to the call
  ratioResult,  \* tuning: outcome of getIntervalRatio
  etResult,     \* tuning: outcome of calculateEqualTemperament
  chordFundamental,  \* calculateChord: the fundamental handed to the call
  chordIntervals,    \* calculateChord: the interval list handed to the call
  noteResult,        \* outcome of noteToFrequency on a string fundamental
  chordResult,       \* outcome of calculateChord
  equalTemperamentNotes,  \* outcome of the page's equal-temperament map
  generator,         \* MIDI export: the generator called, "pythagorean" or "equal"
  midiSequence,      \* MIDI export: the chord list handed to the generator
  midiBaseDuration,  \* MIDI export: seconds per duration unit
  midiTempo,         \* MIDI export: beats per minute
  chordIndex,        \* MIDI export: chords of the list encoded so far
  noteTrack,         \* MIDI export: the event list of track 1 being built
  noteLog,           \* history: for each note-on pushed, its position and cents
  midiFile,          \* MIDI export: the bytes returned (empty before)
  varLengthValue,    \* writeVarLength: the number handed to the call
  varLengthBytes,    \* writeVarLength: the byte array written to, empty at the call
  chordInput,          \* page: the text of the chord sequence box
  pageFrequencies,     \* page: the state 'frequencies', the stored result list
  selectedFundamental, \* page: the key chosen as fundamental, empty for null
  selectedIntervals,   \* page: the keys chosen as intervals, in array order
  darkMode,            \* page: the state 'darkMode'
  pageIsPlaying,       \* page: the state 'isPlaying'
  audioPlayerRef,      \* page: the AudioPlayer instance in audioPlayerRef.current, 0 for null
  lastParsed,          \* history: the text handed to the last 'Parse & Display'
  exportCall,          \* history: the last call of a MIDI generator made by the page
  players,             \* the AudioPlayer instances constructed so far
  playbacks            \* history: the playSequence calls made so far, in call order

vars == <<input, lines, i, chords, lineResult, examined, pc, result, error,
          vchord, vresult, interval, ratioResult, etResult,
          chordFundamental, chordIntervals, noteResult, chordResult, equalTemperamentNotes,
          generator, midiSequence, midiBaseDuration, midiTempo, chordIndex, noteTrack,
          noteLog, midiFile, varLengthValue, varLengthBytes,
          chordInput, pageFrequencies, selectedFundamental, selectedIntervals,
          darkMode, pageIsPlaying, audioPlayerRef, lastParsed, exportCall,
          players, playbacks>>

parserVars == <<input, lines, i, chords, lineResult, examined, pc, result, error>>
validateVars == <<vchord, vresult>>
tuningVars == <<interval, ratioResult, etResult>>
chordVars == <<chordFundamental, chordIntervals, noteResult, chordResult, equalTemperamentNotes>>
midiVars == <<generator, midiSequence, midiBaseDuration, midiTempo, chordIndex, noteTrack,
              noteLog, midiFile>>
varLengthVars == <<varLengthValue, varLengthBytes>>
keyboardVars == <<chordInput, selectedFundamental, selectedIntervals>>
resultVars == <<pageFrequencies, lastParsed, exportCall>>
playVars == <<darkMode, pageIsPlaying, audioPlayerRef>>
pageVars == <<keyboardVars, resultVars, playVars>>
audioVars == <<players, playbacks>>

\* what each component's steps leave alone
notParser == <<validateVars, tuningVars, chordVars, midiVars, varLengthVars,
  pageVars, audioVars>>
notValidate == <<parserVars, tuningVars, chordVars, midiVars, varLengthVars,
  pageVars, audioVars>>
notTuning == <<parserVars, validateVars, chordVars, midiVars, varLengthVars,
  pageVars, audioVars>>
notChord == <<parserVars, validateVars, tuningVars, midiVars, varLengthVars,
  pageVars, audioVars>>
notMidi == <<parserVars, validateVars, tuningVars, chordVars, varLengthVars,
  pageVars, audioVars>>
notVarLength == <<parserVars, validateVars, tuningVars, chordVars, midiVars,
  pageVars, audioVars>>
notPage == <<parserVars, validateVars, tuningVars, chordVars, midiVars, varLengthVars>>

None == [tag |-> "none"]

-----------------------------------------------------------------------------
(* Bounds of the model *)

\* most lines of a multi-line input
MaxLines == 3
\* most comma-separated parts after the colon of a generated single line
MaxParts == 3
\* largest scale degree of a generated interval token
MaxDegree == 30
\* largest octave number of a generated note name; the smallest is its negative
MaxOctave == 9
\* largest of the consecutive numbers handed to writeVarLength
MaxDelta == 300
\* most chords of an exported chord list
MaxChords == 2

-----------------------------------------------------------------------------
(* Characters and strings *)

Min(S) == CHOOSE x \in S : \A y \in S : x <= y
Max(S) == CHOOSE x \in S : \A y \in S : x >= y

Digits == {"0", "1", "2", "3", "4", "5", "6", "7", "8", "9"}

\* white space as String.prototype.trim and the regex class \s see it
WhiteSpace == {" ", "\t", "\r"}
IsWs(c) == c \in WhiteSpace

DigitVal(c) ==
  CASE c = "0" -> 0 [] c = "1" -> 1 [] c = "2" -> 2 [] c = "3" -> 3
    [] c = "4" -> 4 [] c = "5" -> 5 [] c = "6" -> 6 [] c = "7" -> 7
    [] c = "8" -> 8 [] c = "9" -> 9

UpperToLower ==
  [c \in {"A", "B", "C", "D", "E", "F", "G", "I", "N", "O", "R", "T", "U", "X"} |->
     CASE c = "A" -> "a" [] c = "B" -> "b" [] c = "C" -> "c" [] c = "D" -> "d"
       [] c = "E" -> "e" [] c = "F" -> "f" [] c = "G" -> "g" [] c = "I" -> "i"
       [] c = "N" -> "n" [] c = "O" -> "o" [] c = "R" -> "r" [] c = "T" -> "t"
       [] c = "U" -> "u" [] c = "X" -> "x"]

ToLowerCase(s) ==
  [k \in 1..Len(s) |-> IF s[k] \in DOMAIN UpperToLower THEN UpperToLower[s[k]] ELSE s[k]]

Trim(s) ==
  LET keep == {k \in 1..Len(s) : ~IsWs(s[k])}
  IN IF keep = {} THEN <<>> ELSE SubSeq(s, Min(keep), Max(keep))

StartsWith(s, p) == Len(s) >= Len(p) /\ SubSeq(s, 1, Len(p)) = p

\* String.prototype.indexOf for one character: 0-based, -1 when absent
IndexOf(s, c) ==
  LET at == {k \in 1..Len(s) : s[k] = c}
  IN IF at = {} THEN -1 ELSE Min(at) - 1

\* s.substring(from) and s.substring(from, to), 0-based, to exclusive
SubstringFrom(s, from) == SubSeq(s, from + 1, Len(s))
Substring(s, from, to) == SubSeq(s, from + 1, to)

\* String.prototype.split for a one-character separator
RECURSIVE Split(_, _)
Split(s, c) ==
  LET k == IndexOf(s, c)
  IN IF k = -1 THEN <<s>>
     ELSE <<Substring(s, 0, k)>> \o Split(SubstringFrom(s, k + 1), c)

\* the first position at or after k (1-based) whose character is not in the
\* class cls, Len(s) + 1 when the run reaches the end
RunEnd(s, k, cls) ==
  Min({j \in k..(Len(s) + 1) : j = Len(s) + 1 \/ s[j] \notin cls})

-----------------------------------------------------------------------------
(* Numbers *)

Num(m, e) == [kind |-> "num", m |-> m, e |-> e]
NaN == [kind |-> "nan"]
Infinity == [kind |-> "inf"]

RECURSIVE DigitsValue(_)
DigitsValue(ds) ==
  IF ds = <<>> THEN 0
  ELSE 10 * DigitsValue(SubSeq(ds, 1, Len(ds) - 1)) + DigitVal(ds[Len(ds)])

\* parseInt on a string of decimal digits
ParseInt(ds) == DigitsValue(ds)

\* parseFloat on a string over [0-9.]: the longest prefix that is a decimal
\* literal (digits, optionally a point and digits), NaN when there is none.
\* The value is kept exact (m / 10^e); rounding to a double is not modelled.
ParseFloat(s) ==
  LET intEnd == RunEnd(s, 1, Digits)
      hasPoint == intEnd <= Len(s) /\ s[intEnd] = "."
      fracEnd == IF hasPoint THEN RunEnd(s, intEnd + 1, Digits) ELSE intEnd
      intDigits == SubSeq(s, 1, intEnd - 1)
      fracDigits == IF hasPoint THEN SubSeq(s, intEnd + 1, fracEnd - 1) ELSE <<>>
  IN IF intDigits = <<>> /\ fracDigits = <<>> THEN NaN
     ELSE Num(DigitsValue(intDigits \o fracDigits), Len(fracDigits))

IsNaN(x) == x.kind = "nan"

\* x <= 0 as JavaScript evaluates it: false for NaN
LeqZero(x) ==
  CASE x.kind = "num" -> x.m <= 0
    [] x.kind = "inf" -> FALSE
    [] x.kind = "nan" -> FALSE
    [] OTHER -> FALSE

-----------------------------------------------------------------------------
(* Parser.parseChordLine *)

kwDuration == <<"d", "u", "r", "a", "t", "i", "o", "n">>

\* the character class [0-9.] of the duration pattern
DurationChars == Digits \cup {"."}

NullLine == [tag |-> "null"]
Thrown(msg) == [tag |-> "error", msg |-> msg]
Chord(f, ivs, d) == [tag |-> "chord", fundamental |-> f, intervals |-> ivs, duration |-> d]

MissingColonMsg == <<"Invalid format: Missing colon">>
DurationFormatMsg(part) == <<"Invalid duration format: ", part>>
DurationValueMsg(text) == <<"Invalid duration value: ", text>>
NoIntervalsMsg(f) == <<"No intervals specified for fundamental ", f>>
NoChordsMsg == <<"No valid chords found in input">>

\* !line || line.startsWith('#') || line.startsWith('//'), on the trimmed line
IsSkipped(line) ==
  line = <<>> \/ StartsWith(line, <<"#">>) \/ StartsWith(line, <<"/", "/">>)

\* part.toLowerCase().startsWith('duration')
IsDurationPart(part) == StartsWith(ToLowerCase(part), kwDuration)

\* /duration\s*=\s*([0-9.]+)/i tried at position p (1-based) of part: the end
\* of the match (exclusive) and where the group starts, or no match
DurationMatchAt(part, p) ==
  IF p + Len(kwDuration) - 1 > Len(part)
       \/ ToLowerCase(SubSeq(part, p, p + Len(kwDuration) - 1)) # kwDuration
  THEN None
  ELSE LET eq == RunEnd(part, p + Len(kwDuration), WhiteSpace)
       IN IF eq > Len(part) \/ part[eq] # "=" THEN None
          ELSE LET from == RunEnd(part, eq + 1, WhiteSpace)
                   to == RunEnd(part, from, DurationChars)
               IN IF to = from THEN None
                  ELSE [tag |-> "match", group |-> SubSeq(part, from, to - 1)]

\* part.match(/duration\s*=\s*([0-9.]+)/i): the leftmost match, its group 1
DurationMatch(part) ==
  LET at == {p \in 1..Len(part) : DurationMatchAt(part, p) # None}
  IN IF at = {} THEN None ELSE DurationMatchAt(part, Min(at))

\* isNaN(duration) || duration <= 0
DurationRejectedNegativeOnly(d) == IsNaN(d) \/ (d.kind = "num" /\ d.m < 0)
DurationRejected(d) == IsNaN(d) \/ LeqZero(d)

DefaultDuration == Num(1, 0)

\* for (const part of parts) { ... }: parts from index k on, with the
\* intervals collected and the duration set so far
RECURSIVE PartsLoop(_, _, _, _)
PartsLoop(parts, k, intervals, duration) ==
  IF k > Len(parts) THEN [tag |-> "ok", intervals |-> intervals, duration |-> duration]
  ELSE LET part == parts[k]
       IN IF IsDurationPart(part)
          THEN LET durationMatch == DurationMatch(part)
               IN IF durationMatch = None THEN Thrown(DurationFormatMsg(part))
                  ELSE LET d == ParseFloat(durationMatch.group)
                       IN IF DurationRejected(d)
                          THEN Thrown(DurationValueMsg(durationMatch.group))
                          ELSE PartsLoop(parts, k + 1, intervals, d)
          ELSE IF part # <<>>
               THEN PartsLoop(parts, k + 1, Append(intervals, part), duration)
               ELSE PartsLoop(parts, k + 1, intervals, duration)

\* remainder.split(',').map(p => p.trim())
SplitParts(remainder) ==
  LET raw == Split(remainder, ",") IN [k \in 1..Len(raw) |-> Trim(raw[k])]

\* the loop over the parts, then the check of intervals.length
CollectPartsStopAtDuration(parts) ==
  LET dur == {k \in 1..Len(parts) : IsDurationPart(parts[k])}
  IN PartsLoop(IF dur = {} THEN parts ELSE SubSeq(parts, 1, Min(dur)), 1, <<>>,
               DefaultDuration)
CollectParts(parts) == PartsLoop(parts, 1, <<>>, DefaultDuration)

parseChordLineIntervalsFirst(rawLine) ==
  LET line == Trim(rawLine)
  IN IF IsSkipped(line) THEN NullLine
     ELSE LET colonIndex == IndexOf(line, ":")
          IN IF colonIndex = -1 THEN Thrown(MissingColonMsg)
             ELSE LET fundamental == Trim(Substring(line, 0, colonIndex))
                      parts == SplitParts(Trim(SubstringFrom(line, colonIndex + 1)))
                      real == SelectSeq(parts, LAMBDA q : q # <<>> /\ ~IsDurationPart(q))
                      loop == CollectParts(parts)
                  IN IF real = <<>> THEN Thrown(NoIntervalsMsg(fundamental))
                     ELSE IF loop.tag = "error" THEN loop
                     ELSE Chord(fundamental, loop.intervals, loop.duration)

parseChordLine(rawLine) ==
  LET line == Trim(rawLine)
  IN IF IsSkipped(line) THEN NullLine
     ELSE LET colonIndex == IndexOf(line, ":")
          IN IF colonIndex = -1 THEN Thrown(MissingColonMsg)
             ELSE LET fundamental == Trim(Substring(line, 0, colonIndex))
                      remainder == Trim(SubstringFrom(line, colonIndex + 1))
                      loop == CollectParts(SplitParts(remainder))
                  IN IF loop.tag = "error" THEN loop
                     ELSE IF Len(loop.intervals) = 0
                          THEN Thrown(NoIntervalsMsg(fundamental))
                          ELSE Chord(fundamental, loop.intervals, loop.duration)

-----------------------------------------------------------------------------
(* Parser.parseChordSequence, one loop iteration per step *)

\* the line number of `Line ${i + 1}: ...`
LineNumberZeroBased(k) == k
LineNumber(k) == k + 1

LineErrorMsg(k, msg) == <<"Line ", LineNumber(k), ": ">> \o msg

\* chords.length === 0 after the loop
NoChordsNever(cs) == FALSE
NoChords(cs) == Len(cs) = 0

SeqSplit ==
  /\ pc = "start"
  /\ lines' = Split(input, "\n")
  /\ i' = 0
  /\ chords' = <<>>
  /\ pc' = "loop"
  /\ UNCHANGED <<input, lineResult, examined, result, error>>
  /\ UNCHANGED notParser

\* parseChordLine returned null: nothing is pushed
SeqLineNull ==
  /\ pc = "loop" /\ i < Len(lines)
  /\ parseChordLine(lines[i + 1]).tag = "null"
  /\ lineResult' = parseChordLine(lines[i + 1])
  /\ examined' = examined + 1
  /\ i' = i + 1
  /\ UNCHANGED <<input, lines, chords, pc, result, error>>
  /\ UNCHANGED notParser

\* parseChordLine returned a chord: chords.push(chord)
SeqLineChord ==
  /\ pc = "loop" /\ i < Len(lines)
  /\ parseChordLine(lines[i + 1]).tag = "chord"
  /\ lineResult' = parseChordLine(lines[i + 1])
  /\ examined' = examined + 1
  /\ chords' = Append(chords, parseChordLine(lines[i + 1]))
  /\ i' = i + 1
  /\ UNCHANGED <<input, lines, pc, result, error>>
  /\ UNCHANGED notParser

\* parseChordLine threw: the catch rethrows with the line number
SeqLineThrow ==
  /\ pc = "loop" /\ i < Len(lines)
  /\ parseChordLine(lines[i + 1]).tag = "error"
  /\ lineResult' = parseChordLine(lines[i + 1])
  /\ examined' = examined + 1
  /\ error' = LineErrorMsg(i, parseChordLine(lines[i + 1]).msg)
  /\ pc' = "thrown"
  /\ UNCHANGED <<input, lines, i, chords, result>>
  /\ UNCHANGED notParser

SeqEmptyThrow ==
  /\ pc = "loop" /\ i = Len(lines)
  /\ NoChords(chords)
  /\ error' = NoChordsMsg
  /\ pc' = "thrown"
  /\ UNCHANGED <<input, lines, i, chords, lineResult, examined, result>>
  /\ UNCHANGED notParser

SeqReturn ==
  /\ pc = "loop" /\ i = Len(lines)
  /\ ~NoChords(chords)
  /\ result' = chords
  /\ pc' = "returned"
  /\ UNCHANGED <<input, lines, i, chords, lineResult, examined, error>>
  /\ UNCHANGED notParser

-----------------------------------------------------------------------------
(* Inputs of the parser *)

\* all sequences over S of length 1..n
RECURSIVE SeqsOfLen(_, _)
SeqsOfLen(S, n) ==
  IF n = 0 THEN {<<>>}
  ELSE {Append(q, x) : q \in SeqsOfLen(S, n - 1), x \in S}
SeqsUpTo(S, n) == UNION {SeqsOfLen(S, k) : k \in 1..n}

RECURSIVE Join(_, _)
Join(parts, sep) ==
  IF Len(parts) = 1 THEN parts[1]
  ELSE parts[1] \o <<sep>> \o Join(Tail(parts), sep)

\* lines of the multi-line inputs: two chords, blank lines, comments, and one
\* line for each way to be malformed
SeqLines ==
  { <<"C", "4", ":", "1", ":", "5">>,
    <<"A", ":", "5", ",", "d", "u", "r", "a", "t", "i", "o", "n", "=", "2">>,
    <<>>,
    <<" ", "\r">>,
    <<" ", "#", "x">>,
    <<"/", "/">>,
    <<"C", "4">>,
    <<"C", ":">>,
    <<"C", ":", "1", ",", "d", "u", "r", "a", "t", "i", "o", "n", "=", ".">> }

\* the text between two commas of a generated single line
PartSet ==
  { <<"1">>,
    <<" ", "b", "3", " ">>,
    <<>>,
    <<" ", "D", "u", "r", "A", "T", "i", "o", "n", " ", "=", "\t", "0", ".", "5", " ">>,
    kwDuration \o <<"=", "0">>,
    kwDuration,
    kwDuration \o <<"x", "=", "2">>,
    <<"x">> \o kwDuration \o <<"=", "2">> }

\* the text before the colon of a generated single line
FundSet == { <<" ", "C", "4", "\t">>, <<>> }

RichLines ==
  {f \o <<":">> \o Join(ps, ",") : f \in FundSet, ps \in SeqsUpTo(PartSet, MaxParts)}

ParserInputs ==
  {Join(ls, "\n") : ls \in SeqsUpTo(SeqLines, MaxLines)} \cup RichLines

-----------------------------------------------------------------------------
(* Parser.validateChord *)

Undefined == [type |-> "undefined"]
Str(text) == [type |-> "string", v |-> text]
Arr(items) == [type |-> "array", v |-> items]
Number(x) == [type |-> "number", v |-> x]

\* !value: undefined, the empty string, 0 and NaN are falsy
Falsy(value) ==
  \/ value.type = "undefined"
  \/ value.type = "string" /\ value.v = <<>>
  \/ value.type = "number" /\ (value.v.kind = "nan" \/ (value.v.kind = "num" /\ value.v.m = 0))

\* !Array.isArray(chord.intervals) || chord.intervals.length === 0
IntervalsRejected(value) == IF value.type # "array" THEN TRUE ELSE Len(value.v) = 0

\* typeof chord.duration !== 'number' || chord.duration <= 0
DurationFieldRejected(value) ==
  IF value.type # "number" THEN TRUE
  ELSE CASE value.v.kind = "num" -> value.v.m <= 0
         [] value.v.kind = "neginf" -> TRUE
         [] OTHER -> FALSE

MissingFundamentalMsg == <<"Missing fundamental">>
NoIntervalsSpecifiedMsg == <<"No intervals specified">>
InvalidDurationMsg == <<"Invalid duration">>

ValidateThrowFundamental ==
  /\ vresult = None /\ vchord # None
  /\ Falsy(vchord.fundamental)
  /\ vresult' = Thrown(MissingFundamentalMsg)
  /\ UNCHANGED <<vchord, notValidate>>

ValidateThrowIntervals ==
  /\ vresult = None /\ vchord # None
  /\ ~Falsy(vchord.fundamental)
  /\ IntervalsRejected(vchord.intervals)
  /\ vresult' = Thrown(NoIntervalsSpecifiedMsg)
  /\ UNCHANGED <<vchord, notValidate>>

ValidateThrowDuration ==
  /\ vresult = None /\ vchord # None
  /\ ~Falsy(vchord.fundamental)
  /\ ~IntervalsRejected(vchord.intervals)
  /\ DurationFieldRejected(vchord.duration)
  /\ vresult' = Thrown(InvalidDurationMsg)
  /\ UNCHANGED <<vchord, notValidate>>

ValidateReturnTrue ==
  /\ vresult = None /\ vchord # None
  /\ ~Falsy(vchord.fundamental)
  /\ ~IntervalsRejected(vchord.intervals)
  /\ ~DurationFieldRejected(vchord.duration)
  /\ vresult' = [tag |-> "returned", value |-> TRUE]
  /\ UNCHANGED <<vchord, notValidate>>

\* the chord objects handed to validateChord: parsed chords and objects built
\* by hand, with fields missing, of the wrong type, or out of range
ValidateFundamentals == {Undefined, Str(<<>>), Str(<<"C", "4">>), Str(<<"4", "4", "0">>)}
ValidateIntervals ==
  {Undefined, Str(<<"1">>), Arr(<<>>), Arr(<<<<"1">>>>), Arr(<<<<"1">>, <<"b", "3">>, <<"5">>>>)}
ValidateDurations ==
  {Undefined, Str(<<"2">>), Number(Num(1, 0)), Number(Num(15, 1)), Number(Num(0, 0)),
   Number(Num(-1, 0)), Number(NaN), Number(Infinity), Number([kind |-> "neginf"])}

ValidateInputs ==
  [fundamental : ValidateFundamentals, intervals : ValidateIntervals,
   duration : ValidateDurations]

-----------------------------------------------------------------------------
(* PythagoreanTuning: the interval tables *)

Frac(n, d) == [kind |-> "frac", n |-> n, d |-> d]

IntervalKeys ==
  { <<"1">>, <<"b", "2">>, <<"2">>, <<"b", "3">>, <<"3">>, <<"4">>, <<"#", "4">>,
    <<"b", "5">>, <<"5">>, <<"b", "6">>, <<"6">>, <<"b", "7">>, <<"7">>, <<"8">> }

\* PythagoreanTuning.intervals
IntervalsTableJustThird(key) ==
  CASE key = <<"1">> -> Frac(1, 1)
    [] key = <<"b", "2">> -> Frac(256, 243)
    [] key = <<"2">> -> Frac(9, 8)
    [] key = <<"b", "3">> -> Frac(32, 27)
    [] key = <<"3">> -> Frac(5, 4)
    [] key = <<"4">> -> Frac(4, 3)
    [] key = <<"#", "4">> -> Frac(729, 512)
    [] key = <<"b", "5">> -> Frac(1024, 729)
    [] key = <<"5">> -> Frac(3, 2)
    [] key = <<"b", "6">> -> Frac(128, 81)
    [] key = <<"6">> -> Frac(27, 16)
    [] key = <<"b", "7">> -> Frac(16, 9)
    [] key = <<"7">> -> Frac(243, 128)
    [] key = <<"8">> -> Frac(2, 1)
IntervalsTable(key) ==
  CASE key = <<"1">> -> Frac(1, 1)
    [] key = <<"b", "2">> -> Frac(256, 243)
    [] key = <<"2">> -> Frac(9, 8)
    [] key = <<"b", "3">> -> Frac(32, 27)
    [] key = <<"3">> -> Frac(81, 64)
    [] key = <<"4">> -> Frac(4, 3)
    [] key = <<"#", "4">> -> Frac(729, 512)
    [] key = <<"b", "5">> -> Frac(729, 512)
    [] key = <<"5">> -> Frac(3, 2)
    [] key = <<"b", "6">> -> Frac(128, 81)
    [] key = <<"6">> -> Frac(27, 16)
    [] key = <<"b", "7">> -> Frac(16, 9)
    [] key = <<"7">> -> Frac(243, 128)
    [] key = <<"8">> -> Frac(2, 1)

\* intervalToSemitones of calculateEqualTemperament
SemitonesTable(key) ==
  CASE key = <<"1">> -> 0
    [] key = <<"b", "2">> -> 1
    [] key = <<"2">> -> 2
    [] key = <<"b", "3">> -> 3
    [] key = <<"3">> -> 4
    [] key = <<"4">> -> 5
    [] key = <<"#", "4">> -> 6
    [] key = <<"b", "5">> -> 6
    [] key = <<"5">> -> 7
    [] key = <<"b", "6">> -> 8
    [] key = <<"6">> -> 9
    [] key = <<"b", "7">> -> 10
    [] key = <<"7">> -> 11
    [] key = <<"8">> -> 12

\* property names every object literal inherits from Object.prototype (two of them)
ObjectPrototypeKeys ==
  { <<"t", "o", "S", "t", "r", "i", "n", "g">>, <<"v", "a", "l", "u", "e", "O", "f">> }
Inherited(key) == [kind |-> "function", name |-> key]

\* this.intervals[key]: an own property, an inherited one, or undefined
IntervalsLookup(key) ==
  IF key \in IntervalKeys THEN IntervalsTable(key)
  ELSE IF key \in ObjectPrototypeKeys THEN Inherited(key)
  ELSE Undefined

\* intervalToSemitones[key]
SemitonesLookup(key) ==
  IF key \in IntervalKeys THEN Number(Num(SemitonesTable(key), 0))
  ELSE IF key \in ObjectPrototypeKeys THEN Inherited(key)
  ELSE Undefined

\* a looked-up value in a condition: undefined is falsy; the ratios, all
\* non-zero, and functions are truthy
Truthy(value) == value # Undefined

-----------------------------------------------------------------------------
(* PythagoreanTuning.getIntervalRatio and calculateEqualTemperament *)

RECURSIVE Pow2(_)
Pow2(n) == IF n = 0 THEN 1 ELSE 2 * Pow2(n - 1)

DigitChar(n) ==
  CASE n = 0 -> "0" [] n = 1 -> "1" [] n = 2 -> "2" [] n = 3 -> "3" [] n = 4 -> "4"
    [] n = 5 -> "5" [] n = 6 -> "6" [] n = 7 -> "7" [] n = 8 -> "8" [] n = 9 -> "9"

\* String(n) for a natural number
RECURSIVE NumberToString(_)
NumberToString(n) ==
  IF n < 10 THEN <<DigitChar(n)>>
  ELSE NumberToString(n \div 10) \o <<DigitChar(n % 10)>>

\* interval.match(/^([#b]?)(\d+)$/): groups 1 and 2, or no match
IntervalMatch(text) ==
  LET accidental == IF text # <<>> /\ text[1] \in {"#", "b"} THEN <<text[1]>> ELSE <<>>
      digits == SubSeq(text, Len(accidental) + 1, Len(text))
  IN IF digits # <<>> /\ \A k \in 1..Len(digits) : digits[k] \in Digits
     THEN [tag |-> "match", accidental |-> accidental, digits |-> digits]
     ELSE None

\* Math.floor((number - 1) / 7) and ((number - 1) % 7) + 1
Octaves(number) == (number - 1) \div 7
SimpleNumberModEight(number) == ((number - 1) % 8) + 1
SimpleNumber(number) == ((number - 1) % 7) + 1

Returned(value) == [tag |-> "returned", value |-> value]

\* ratio * Math.pow(2, octaves)
TimesPow2(ratio, octaves) == Frac(ratio.n * Pow2(octaves), ratio.d)

\* number <= 8 in getIntervalRatio: a simple interval the table does not have
IsSimpleNumber(number) == number <= 8

getIntervalRatio(rawInterval) ==
  LET token == Trim(rawInterval)
  IN IF Truthy(IntervalsLookup(token)) THEN Returned(IntervalsLookup(token))
     ELSE LET match == IntervalMatch(token)
          IN IF match = None THEN Thrown(<<"Invalid interval: ", token>>)
             ELSE LET number == ParseInt(match.digits)
                      simpleInterval == match.accidental \o NumberToString(SimpleNumber(number))
                  IN IF IsSimpleNumber(number)
                     THEN Thrown(<<"Unknown interval: ", token>>)
                     ELSE IF ~Truthy(IntervalsLookup(simpleInterval))
                          THEN Thrown(<<"Unknown compound interval: ", token, simpleInterval>>)
                          ELSE Returned(TimesPow2(IntervalsLookup(simpleInterval),
                                                  Octaves(number)))

\* intervalToSemitones[simpleInterval] + (octaves * 12): undefined + n is NaN
PlusOctaves(value, octaves) ==
  IF value.type = "number" THEN Num(value.v.m + octaves * 12, 0) ELSE NaN

\* fundamental * Math.pow(2, semitones / 12), kept as its exponent; NaN for a
\* semitone count that is NaN
EqualTemperamentValue(semitones) ==
  IF semitones.kind = "num" THEN [kind |-> "et", semitones |-> semitones.m] ELSE NaN

calculateEqualTemperament(token) ==
  LET match == IntervalMatch(token)
  IN IF match = None THEN Thrown(<<"Invalid interval: ", token>>)
     ELSE LET number == ParseInt(match.digits)
              simpleInterval == match.accidental \o NumberToString(SimpleNumber(number))
          IN IF number <= 8
             THEN IF SemitonesLookup(token) = Undefined
                  THEN Thrown(<<"Unknown interval for equal temperament: ", token>>)
                  ELSE Returned(EqualTemperamentValue(SemitonesLookup(token).v))
             ELSE Returned(EqualTemperamentValue(
                             PlusOctaves(SemitonesLookup(simpleInterval), Octaves(number))))

GetIntervalRatioReturn ==
  /\ ratioResult = None
  /\ getIntervalRatio(interval).tag = "returned"
  /\ ratioResult' = getIntervalRatio(interval)
  /\ UNCHANGED <<interval, etResult, notTuning>>

GetIntervalRatioThrow ==
  /\ ratioResult = None
  /\ getIntervalRatio(interval).tag = "error"
  /\ ratioResult' = getIntervalRatio(interval)
  /\ UNCHANGED <<interval, etResult, notTuning>>

EqualTemperamentReturn ==
  /\ etResult = None
  /\ calculateEqualTemperament(interval).tag = "returned"
  /\ etResult' = calculateEqualTemperament(interval)
  /\ UNCHANGED <<interval, ratioResult, notTuning>>

EqualTemperamentThrow ==
  /\ etResult = None
  /\ calculateEqualTemperament(interval).tag = "error"
  /\ etResult' = calculateEqualTemperament(interval)
  /\ UNCHANGED <<interval, ratioResult, notTuning>>

Accidentals == {<<>>, <<"#">>, <<"b">>}

\* interval tokens: every accidental with every degree 0..MaxDegree, degrees
\* written with a leading zero, and tokens that are no interval
IntervalInputs ==
  {a \o NumberToString(d) : a \in Accidentals, d \in 0..MaxDegree}
    \cup {a \o <<"0">> \o NumberToString(d) : a \in Accidentals, d \in {5, 8, 9}}
    \cup { <<>>, <<"x">>, <<"#">>, <<"5", "b">>, <<"#", "#", "4">>, <<"B", "5">>,
           <<"-", "3">>, <<"3", ".", "5">>, <<" ", "5", " ">>, <<" ", "#", "9">> }
    \cup ObjectPrototypeKeys

-----------------------------------------------------------------------------
(* PythagoreanTuning.noteToFrequency *)

NoteLetters == {"A", "B", "C", "D", "E", "F", "G"}

\* the keys of PythagoreanTuning.noteToSemitone
NoteNames ==
  { <<"C">>, <<"C", "#">>, <<"D", "b">>, <<"D">>, <<"D", "#">>, <<"E", "b">>, <<"E">>,
    <<"F">>, <<"F", "#">>, <<"G", "b">>, <<"G">>, <<"G", "#">>, <<"A", "b">>, <<"A">>,
    <<"A", "#">>, <<"B", "b">>, <<"B">> }

\* PythagoreanTuning.noteToSemitone
noteToSemitone(noteName) ==
  CASE noteName = <<"C">> -> -9
    [] noteName = <<"C", "#">> -> -8
    [] noteName = <<"D", "b">> -> -8
    [] noteName = <<"D">> -> -7
    [] noteName = <<"D", "#">> -> -6
    [] noteName = <<"E", "b">> -> -6
    [] noteName = <<"E">> -> -5
    [] noteName = <<"F">> -> -4
    [] noteName = <<"F", "#">> -> -3
    [] noteName = <<"G", "b">> -> -3
    [] noteName = <<"G">> -> -2
    [] noteName = <<"G", "#">> -> -1
    [] noteName = <<"A", "b">> -> -1
    [] noteName = <<"A">> -> 0
    [] noteName = <<"A", "#">> -> 1
    [] noteName = <<"B", "b">> -> 1
    [] noteName = <<"B">> -> 2

\* this.noteToSemitone[noteName] for a name of the form [A-G][#b]?: an own
\* property or undefined
NoteToSemitoneLookup(noteName) ==
  IF noteName \in NoteNames THEN Number(Num(noteToSemitone(noteName), 0)) ELSE Undefined

\* note.match(/^([A-G][#b]?)(-?\d+)$/): groups 1 and 2, or no match
NoteMatch(note) ==
  IF note = <<>> THEN None
  ELSE IF note[1] \notin NoteLetters THEN None
  ELSE LET nameLen == IF Len(note) >= 2 /\ note[2] \in {"#", "b"} THEN 2 ELSE 1
           rest == SubSeq(note, nameLen + 1, Len(note))
           digits == IF rest # <<>> /\ rest[1] = "-" THEN Tail(rest) ELSE rest
       IN IF digits # <<>> /\ \A k \in 1..Len(digits) : digits[k] \in Digits
          THEN [tag |-> "match", noteName |-> SubSeq(note, 1, nameLen), octave |-> rest]
          ELSE None

\* parseInt on an optional '-' and decimal digits
ParseIntSigned(text) ==
  IF text[1] = "-" THEN 0 - ParseInt(Tail(text)) ELSE ParseInt(text)

\* semitoneOffset + (octave - 4) * 12
TotalSemitonesFromOctaveZero(semitoneOffset, octave) == semitoneOffset + octave * 12
TotalSemitones(semitoneOffset, octave) == semitoneOffset + (octave - 4) * 12

\* 440 * Math.pow(2, totalSemitones / 12), kept as its exponent
A4Pow(totalSemitones) == [kind |-> "a4", semitones |-> totalSemitones]

noteToFrequency(note) ==
  LET match == NoteMatch(note)
  IN IF match = None THEN Thrown(<<"Invalid note format: ", note>>)
     ELSE LET noteName == match.noteName
              octave == ParseIntSigned(match.octave)
              semitoneOffset == NoteToSemitoneLookup(noteName)
          IN IF semitoneOffset = Undefined
             THEN Thrown(<<"Invalid note name: ", noteName>>)
             ELSE Returned(A4Pow(TotalSemitones(semitoneOffset.v.m, octave)))

-----------------------------------------------------------------------------
(* PythagoreanTuning.calculateChord and the page's equal-temperament list *)

RECURSIVE Pow10(_)
Pow10(n) == IF n = 0 THEN 1 ELSE 10 * Pow10(n - 1)

kwInfinity == <<"I", "n", "f", "i", "n", "i", "t", "y">>

\* the length of the longest prefix of s that is a decimal literal (digits,
\* optionally a point and digits), 0 when there is none
DecimalPrefixLen(s) ==
  LET intEnd == RunEnd(s, 1, Digits)
      hasPoint == intEnd <= Len(s) /\ s[intEnd] = "."
      fracEnd == IF hasPoint THEN RunEnd(s, intEnd + 1, Digits) ELSE intEnd
  IN IF intEnd = 1 /\ (~hasPoint \/ fracEnd = intEnd + 1) THEN 0 ELSE fracEnd - 1

\* the exponent part of a literal at the head of s: [eE][+-]?digits, its value
\* (0 without one)
ExponentValue(s) ==
  IF s = <<>> THEN 0
  ELSE IF s[1] \notin {"e", "E"} THEN 0
  ELSE LET signed == Len(s) >= 2 /\ s[2] \in {"+", "-"}
           from == IF signed THEN 3 ELSE 2
           to == RunEnd(s, from, Digits)
       IN IF to = from THEN 0
          ELSE IF signed /\ s[2] = "-" THEN 0 - ParseInt(SubSeq(s, from, to - 1))
          ELSE ParseInt(SubSeq(s, from, to - 1))

\* m / 10^e times 10^x
Scale10(x, by) ==
  IF by >= x.e THEN Num(x.m * Pow10(by - x.e), 0) ELSE Num(x.m, x.e - by)

Negate(x) ==
  CASE x.kind = "num" -> Num(0 - x.m, x.e)
    [] x.kind = "inf" -> [kind |-> "neginf"]
    [] OTHER -> x

\* parseFloat(text): leading white space skipped, an optional sign, then
\* 'Infinity' or the longest decimal literal with its exponent; NaN otherwise
parseFloat(text) ==
  LET from == RunEnd(text, 1, WhiteSpace \cup {"\n"})
      signed == from <= Len(text) /\ text[from] \in {"+", "-"}
      body == SubSeq(text, IF signed THEN from + 1 ELSE from, Len(text))
      len == DecimalPrefixLen(body)
      unsigned ==
        IF StartsWith(body, kwInfinity) THEN Infinity
        ELSE IF len = 0 THEN NaN
        ELSE Scale10(ParseFloat(body), ExponentValue(SubSeq(body, len + 1, Len(body))))
  IN IF signed /\ text[from] = "-" THEN Negate(unsigned) ELSE unsigned

\* a * b for a frequency and a ratio, kept as the product; NaN when a factor
\* is NaN or is no number (a function)
Times(a, b) ==
  IF a.kind = "nan" \/ b.kind \in {"nan", "function"} THEN NaN
  ELSE [kind |-> "times", a |-> a, b |-> b]

\* the fundamental of calculateChord resolved to a frequency
FundamentalFrequency(fundamental) ==
  IF fundamental.type = "string"
  THEN IF noteToFrequency(fundamental.v).tag = "returned"
       THEN noteToFrequency(fundamental.v)
       ELSE IF IsNaN(parseFloat(fundamental.v))
            THEN Thrown(<<"Invalid fundamental: ", fundamental.v>>)
            ELSE Returned(parseFloat(fundamental.v))
  ELSE Returned(fundamental.v)

calculateFrequency(fundamentalFreq, token) ==
  LET ratio == getIntervalRatio(token)
  IN IF ratio.tag = "error" THEN ratio ELSE Returned(Times(fundamentalFreq, ratio.value))

\* intervals.map(interval => ({interval, frequency, ratio})): the first
\* interval that throws ends the call
ChordNotes(fundamentalFreq, tokens) ==
  LET failing == {k \in 1..Len(tokens) : getIntervalRatio(tokens[k]).tag = "error"}
  IN IF failing # {} THEN getIntervalRatio(tokens[Min(failing)])
     ELSE Returned([k \in 1..Len(tokens) |->
                      [interval |-> tokens[k],
                       frequency |-> calculateFrequency(fundamentalFreq, tokens[k]).value,
                       ratio |-> getIntervalRatio(tokens[k]).value]])

calculateChord(fundamental, tokens) ==
  LET fundamentalFreq == FundamentalFrequency(fundamental)
  IN IF fundamentalFreq.tag = "error" THEN fundamentalFreq
     ELSE LET frequencies == ChordNotes(fundamentalFreq.value, tokens)
          IN IF frequencies.tag = "error" THEN frequencies
             ELSE Returned([fundamental |-> fundamentalFreq.value,
                            notes |-> frequencies.value])

\* chord.intervals.map(interval => ({interval, frequency})) of parseAndDisplay
EqualTemperamentMap(fundamentalFreq, tokens) ==
  LET failing == {k \in 1..Len(tokens) : calculateEqualTemperament(tokens[k]).tag = "error"}
  IN IF failing # {} THEN calculateEqualTemperament(tokens[Min(failing)])
     ELSE Returned([k \in 1..Len(tokens) |->
                      [interval |-> tokens[k],
                       frequency |-> Times(fundamentalFreq,
                                           calculateEqualTemperament(tokens[k]).value)]])

NoteToFrequencyReturn ==
  /\ noteResult = None
  /\ chordFundamental.type = "string"
  /\ noteToFrequency(chordFundamental.v).tag = "returned"
  /\ noteResult' = noteToFrequency(chordFundamental.v)
  /\ UNCHANGED <<chordFundamental, chordIntervals, chordResult, equalTemperamentNotes>>
  /\ UNCHANGED notChord

NoteToFrequencyThrow ==
  /\ noteResult = None
  /\ chordFundamental.type = "string"
  /\ noteToFrequency(chordFundamental.v).tag = "error"
  /\ noteResult' = noteToFrequency(chordFundamental.v)
  /\ UNCHANGED <<chordFundamental, chordIntervals, chordResult, equalTemperamentNotes>>
  /\ UNCHANGED notChord

CalculateChordReturn ==
  /\ chordResult = None
  /\ calculateChord(chordFundamental, chordIntervals).tag = "returned"
  /\ chordResult' = calculateChord(chordFundamental, chordIntervals)
  /\ UNCHANGED <<chordFundamental, chordIntervals, noteResult, equalTemperamentNotes>>
  /\ UNCHANGED notChord

CalculateChordThrow ==
  /\ chordResult = None
  /\ calculateChord(chordFundamental, chordIntervals).tag = "error"
  /\ chordResult' = calculateChord(chordFundamental, chordIntervals)
  /\ UNCHANGED <<chordFundamental, chordIntervals, noteResult, equalTemperamentNotes>>
  /\ UNCHANGED notChord

\* parseAndDisplay maps the intervals once calculateChord has returned
EqualTemperamentNotesReturn ==
  /\ chordResult.tag = "returned" /\ equalTemperamentNotes = None
  /\ EqualTemperamentMap(chordResult.value.fundamental, chordIntervals).tag = "returned"
  /\ equalTemperamentNotes' =
       EqualTemperamentMap(chordResult.value.fundamental, chordIntervals)
  /\ UNCHANGED <<chordFundamental, chordIntervals, noteResult, chordResult>>
  /\ UNCHANGED notChord

EqualTemperamentNotesThrow ==
  /\ chordResult.tag = "returned" /\ equalTemperamentNotes = None
  /\ EqualTemperamentMap(chordResult.value.fundamental, chordIntervals).tag = "error"
  /\ equalTemperamentNotes' =
       EqualTemperamentMap(chordResult.value.fundamental, chordIntervals)
  /\ UNCHANGED <<chordFundamental, chordIntervals, noteResult, chordResult>>
  /\ UNCHANGED notChord

\* the octave numbers written in the generated note names
OctaveTexts ==
  {NumberToString(n) : n \in 0..MaxOctave}
    \cup {<<"-">> \o NumberToString(n) : n \in 0..MaxOctave}
    \cup { <<"0", "4">> }

NoteInputs ==
  {<<l>> \o a \o o : l \in NoteLetters, a \in Accidentals, o \in OctaveTexts}

\* fundamentals that are no note name: numbers, numbers with a tail, and
\* texts that are neither
OtherFundamentals ==
  { <<>>, <<"4", "4", "0">>, <<"4", "4", "0", "H", "z">>, <<"4", "x">>, <<"A">>,
    <<"H", "4">>, <<"a", "4">>, <<"A", "4", " ">>, <<"-", "5">>, <<".", "5">>,
    <<"1", "e", "3">>, kwInfinity, <<"x", "4", "4", "0">>,
    <<"2", "6", "1", ".", "6", "3">>, <<"0">>, <<"A", "#">>, <<"A", "b", "-">>,
    <<"A", "4", ".", "5">>, <<" ", "4", "4", "0">>, <<"4", ".", "5", ".", "6">>,
    <<"-">>, <<".">>, <<"2", "e">>, <<"-", "4", "4", "0">> }

FundamentalInputs ==
  {Str(t) : t \in NoteInputs \cup OtherFundamentals}
    \cup {Number(Num(440, 0))}

IntervalLists ==
  { <<<<"1">>, <<"3">>, <<"5">>>>,
    <<<<"5">>, <<"1">>, <<"5">>>>,
    <<<<"9">>, <<"b", "2", "1">>>>,
    <<<<"1">>, <<"#", "9">>>>,
    <<<<"1">>, <<"x">>, <<"#", "9">>>>,
    <<<<"b", "3">>, <<"v", "a", "l", "u", "e", "O", "f">>>>,
    <<<<" ", "5", " ">>>>,
    <<>> }

-----------------------------------------------------------------------------
(* MIDIExporter.writeVarLength *)

\* An integer-valued JavaScript number n is kept as two halves,
\* n = hi * 2^16 + lo with 0 <= lo < 2^16, so that numbers of 32 bits and
\* more can be written down; the bitwise operators see ToInt32 of it.
Half == 65536
JsInt(n) == [hi |-> n \div Half, lo |-> n % Half]

\* the upper 16 bits of ToInt32(value), read as a signed number
Int32High(hi) ==
  IF (hi % Half) >= (Half \div 2) THEN (hi % Half) - Half ELSE hi % Half

\* value & 0x7F
LowSevenBits(v) == v.lo % 128

\* value >>= 7 on ToInt32(value): an arithmetic shift, the result has 25 bits
ShiftRightSeven(v) == Int32High(v.hi) * (Half \div 128) + (v.lo \div 128)

\* while (value > 0) { buffer.push((value & 0x7F) | 0x80); value >>= 7; }
RECURSIVE VarLengthLoop(_, _)
VarLengthLoop(buffer, v) ==
  IF v > 0 THEN VarLengthLoop(Append(buffer, (v % 128) + 128), v \div 128) ELSE buffer

Reverse(s) == [k \in 1..Len(s) |-> s[Len(s) + 1 - k]]

\* the bytes writeVarLength pushes for value: buffer.reverse()
writeVarLength(v) ==
  Reverse(VarLengthLoop(<<LowSevenBits(v)>>, ShiftRightSeven(v)))

\* writeVarLength(bytes, value) on an empty byte array
WriteVarLength ==
  /\ varLengthValue # None /\ varLengthBytes = <<>>
  /\ varLengthBytes' = writeVarLength(varLengthValue)
  /\ UNCHANGED <<varLengthValue, notVarLength>>

\* the numbers handed to writeVarLength: every number up to MaxDelta, and
\* numbers around each power 2^7, 2^14, 2^21, 2^28, 2^31 and 2^32
VarLengthInputs ==
  {JsInt(n) : n \in 0..MaxDelta}
    \cup [hi : {0, 1, 31, 32, 4095, 4096, 32767, 32768, 65535, 65536, 65537},
          lo : {0, 1, 127, 128, 16383, 16384, 65535}]

-----------------------------------------------------------------------------
(* MIDIExporter: frequencies, events and chunks *)

\* this.ppq
ppq == 480

\* A pitch is measured in thousandths of a cent; 1200 * Math.log2(3) in that
\* unit.  Rounding to a double is not modelled: the deviations that matter
\* (from 0.5 cent up) are far larger than the error of either.
MilliCentsOfThree == 1901955
MilliCentsPerSemitone == 100000

\* the exponent of the prime p in n
RECURSIVE PrimeExponent(_, _)
PrimeExponent(n, p) == IF n % p = 0 THEN 1 + PrimeExponent(n \div p, p) ELSE 0

\* 1200 * Math.log2(x / 440) for a frequency literal x in Hz
HzMilliCents(x) ==
  CASE x = Num(440, 0) -> 0
    [] x = Num(20000, 0) -> 6607623
    [] x = Num(26163, 2) -> -899971
    [] x = Num(45289, 2) -> 49989
    [] x = Num(42748, 2) -> -49976

\* 1200 * Math.log2(frequency / 440) for a frequency fundamental * ratio
MilliCentsAboveA4(frequency) ==
  (IF frequency.a.kind = "a4" THEN frequency.a.semitones * MilliCentsPerSemitone
   ELSE HzMilliCents(frequency.a))
  + (IF frequency.b.kind = "et" THEN frequency.b.semitones * MilliCentsPerSemitone
     ELSE (PrimeExponent(frequency.b.n, 2) - PrimeExponent(frequency.b.d, 2))
            * 12 * MilliCentsPerSemitone
          + (PrimeExponent(frequency.b.n, 3) - PrimeExponent(frequency.b.d, 3))
            * MilliCentsOfThree)

\* Math.round(n / d) for d > 0: halves go up
RoundDiv(n, d) == (2 * n + d) \div (2 * d)

\* {note, cents}: note is Math.round(midiFloat); cents is kept in thousandths
frequencyToMIDI(frequency) ==
  LET midiFloat == 69 * MilliCentsPerSemitone + MilliCentsAboveA4(frequency)
      midiNote == RoundDiv(midiFloat, MilliCentsPerSemitone)
  IN [note |-> midiNote, cents |-> midiFloat - midiNote * MilliCentsPerSemitone]

\* Math.max(0, Math.min(16383, Math.round(8192 + (cents / 200) * 8192)))
centsToPitchBendFourSemitones(cents) ==
  Max({0, Min({16383, 8192 + RoundDiv(8192 * cents, 400 * 1000)})})
centsToPitchBend(cents) ==
  Max({0, Min({16383, 8192 + RoundDiv(8192 * cents, 200 * 1000)})})

\* Math.abs(cents) > 0.5
NeedsBendUpwardOnly(cents) == cents > 500
NeedsBend(cents) == cents > 500 \/ cents < -500

\* Math.min(noteIndex, 15)
Channel(noteIndex) == Min({noteIndex, 15})

\* (this.ppq * tempo) / 60 and Math.round(chord.duration * baseDuration * ticksPerSecond)
TicksPerSecond(bpm) == (ppq * bpm) \div 60
DurationTicksRoundedDown(duration, base, bpm) ==
  (duration.m * base.m * TicksPerSecond(bpm)) \div Pow10(duration.e + base.e)
DurationTicks(duration, base, bpm) ==
  RoundDiv(duration.m * base.m * TicksPerSecond(bpm), Pow10(duration.e + base.e))

\* the events pushed; 0xE0 | channel and the like add up, the channel has 4 bits
PitchBendEvent(channel, pitchBend) ==
  [deltaTime |-> 0,
   data |-> <<224 + channel, pitchBend % 128, (pitchBend \div 128) % 128>>]
NoteOnEvent(channel, note) == [deltaTime |-> 0, data |-> <<144 + channel, note, 80>>]

\* deltaTime: noteIndex === 0 ? durationTicks : 0
NoteOffDeltaEveryNote(noteIndex, durationTicks) == durationTicks
NoteOffDelta(noteIndex, durationTicks) == IF noteIndex = 0 THEN durationTicks ELSE 0

NoteOffEventChannelWrapped(noteIndex, note, durationTicks) ==
  [deltaTime |-> NoteOffDelta(noteIndex, durationTicks),
   data |-> <<128 + (noteIndex % 16), note, 0>>]
NoteOffEvent(noteIndex, note, durationTicks) ==
  [deltaTime |-> NoteOffDelta(noteIndex, durationTicks),
   data |-> <<128 + Channel(noteIndex), note, 0>>]

EndOfTrackNoLength == [deltaTime |-> 0, data |-> <<255, 47>>]
EndOfTrack == [deltaTime |-> 0, data |-> <<255, 47, 0>>]

\* the first forEach over chord.pythagoreanNotes, from note k (1-based) on:
\* the track and the history of note-ons
RECURSIVE PythagoreanNoteOns(_, _, _, _)
PythagoreanNoteOns(notes, k, track, log) ==
  IF k > Len(notes) THEN [track |-> track, log |-> log]
  ELSE LET midi == frequencyToMIDI(notes[k].frequency)
           pitchBend == centsToPitchBend(midi.cents)
           channel == Channel(k - 1)
           bent == IF NeedsBend(midi.cents)
                   THEN Append(track, PitchBendEvent(channel, pitchBend))
                   ELSE track
       IN PythagoreanNoteOns(notes, k + 1,
            Append(bent, NoteOnEvent(channel, midi.note)),
            Append(log, [at |-> Len(bent) + 1, channel |-> channel, cents |-> midi.cents]))

\* the first forEach over chord.equalTemperamentNotes
RECURSIVE EqualTemperamentNoteOns(_, _, _, _)
EqualTemperamentNoteOns(notes, k, track, log) ==
  IF k > Len(notes) THEN [track |-> track, log |-> log]
  ELSE LET midi == frequencyToMIDI(notes[k].frequency)
           channel == Channel(k - 1)
       IN EqualTemperamentNoteOns(notes, k + 1,
            Append(track, NoteOnEvent(channel, midi.note)),
            Append(log, [at |-> Len(track) + 1, channel |-> channel, cents |-> midi.cents]))

\* the second forEach: the note-off messages
NoteOffs(notes, durationTicks) ==
  [k \in 1..Len(notes) |->
     NoteOffEvent(k - 1, frequencyToMIDI(notes[k].frequency).note, durationTicks)]

\* the tempo track of both generators
TempoTrack(bpm) ==
  LET microsecondsPerBeat == RoundDiv(60000000, bpm)
  IN << [deltaTime |-> 0,
         data |-> <<255, 81, 3, (microsecondsPerBeat \div 65536) % 256,
                    (microsecondsPerBeat \div 256) % 256, microsecondsPerBeat % 256>>],
        EndOfTrack >>

RECURSIVE Concat(_)
Concat(ss) == IF ss = <<>> THEN <<>> ELSE Head(ss) \o Concat(Tail(ss))

\* new Uint8Array(bytes): every element modulo 256
ToUint8Array(data) == [k \in 1..Len(data) |-> data[k] % 256]

encodeTrackEvents(events) ==
  ToUint8Array(Concat([k \in 1..Len(events) |->
                         writeVarLength(JsInt(events[k].deltaTime)) \o events[k].data]))

\* view.setUint32(offset, n, false) and view.setUint16(offset, n, false)
Uint32Bytes(n) ==
  <<(n \div 16777216) % 256, (n \div 65536) % 256, (n \div 256) % 256, n % 256>>
Uint16Bytes(n) == <<(n \div 256) % 256, n % 256>>

createHeaderChunk(numTracks) ==
  <<77, 84, 104, 100>> \o Uint32Bytes(6) \o Uint16Bytes(1)
    \o Uint16Bytes(numTracks) \o Uint16Bytes(ppq)

TrackLengthWithHeader(trackData) == Len(trackData) + 8
TrackLength(trackData) == Len(trackData)

createTrackChunk(events) ==
  LET trackData == encodeTrackEvents(events)
  IN <<77, 84, 114, 107>> \o Uint32Bytes(TrackLength(trackData)) \o trackData

createMIDIFile(tracks) ==
  createHeaderChunk(Len(tracks))
    \o Concat([k \in 1..Len(tracks) |-> createTrackChunk(tracks[k])])

\* one chord of the list parseAndDisplay hands on: the fields the generators read
ProcessedChord(chord) ==
  LET pythagoreanChord == calculateChord(Str(chord.fundamental), chord.intervals).value
  IN [fundamental |-> chord.fundamental,
      duration |-> chord.duration,
      pythagoreanNotes |-> pythagoreanChord.notes,
      equalTemperamentNotes |->
        EqualTemperamentMap(pythagoreanChord.fundamental, chord.intervals).value]

\* chordSequence.forEach of generatePythagoreanMIDI, one chord per step
PythagoreanChordStep ==
  /\ generator = "pythagorean" /\ midiFile = <<>>
  /\ chordIndex < Len(midiSequence)
  /\ LET chord == midiSequence[chordIndex + 1]
         durationTicks == DurationTicks(chord.duration, midiBaseDuration, midiTempo)
         ons == PythagoreanNoteOns(chord.pythagoreanNotes, 1, noteTrack, noteLog)
     IN /\ noteTrack' = ons.track \o NoteOffs(chord.pythagoreanNotes, durationTicks)
        /\ noteLog' = ons.log
  /\ chordIndex' = chordIndex + 1
  /\ UNCHANGED <<generator, midiSequence, midiBaseDuration, midiTempo, midiFile>>
  /\ UNCHANGED notMidi

\* the end of track is pushed and createMIDIFile(tracks) returned
PythagoreanFinish ==
  /\ generator = "pythagorean" /\ midiFile = <<>>
  /\ chordIndex = Len(midiSequence)
  /\ noteTrack' = Append(noteTrack, EndOfTrack)
  /\ midiFile' = createMIDIFile(<<TempoTrack(midiTempo), Append(noteTrack, EndOfTrack)>>)
  /\ UNCHANGED <<generator, midiSequence, midiBaseDuration, midiTempo, chordIndex, noteLog>>
  /\ UNCHANGED notMidi

\* chordSequence.forEach of generateEqualTemperamentMIDI, one chord per step
EqualTemperamentChordStep ==
  /\ generator = "equal" /\ midiFile = <<>>
  /\ chordIndex < Len(midiSequence)
  /\ LET chord == midiSequence[chordIndex + 1]
         durationTicks == DurationTicks(chord.duration, midiBaseDuration, midiTempo)
         ons == EqualTemperamentNoteOns(chord.equalTemperamentNotes, 1, noteTrack, noteLog)
     IN /\ noteTrack' = ons.track \o NoteOffs(chord.equalTemperamentNotes, durationTicks)
        /\ noteLog' = ons.log
  /\ chordIndex' = chordIndex + 1
  /\ UNCHANGED <<generator, midiSequence, midiBaseDuration, midiTempo, midiFile>>
  /\ UNCHANGED notMidi

EqualTemperamentFinish ==
  /\ generator = "equal" /\ midiFile = <<>>
  /\ chordIndex = Len(midiSequence)
  /\ noteTrack' = Append(noteTrack, EndOfTrack)
  /\ midiFile' = createMIDIFile(<<TempoTrack(midiTempo), Append(noteTrack, EndOfTrack)>>)
  /\ UNCHANGED <<generator, midiSequence, midiBaseDuration, midiTempo, chordIndex, noteLog>>
  /\ UNCHANGED notMidi

\* eighteen intervals, unisons and fifths in turn and one more unison
ManyIntervals == [k \in 1..18 |-> IF k % 2 = 1 \/ k = 18 THEN <<"1">> ELSE <<"5">>]

\* the chords exported: in tune and out of tune with the keyboard, above and
\* below the MIDI range, more notes than channels, durations of zero and less,
\* a quarter tone above and below a key, and a chord object without notes
ExportChords ==
  { Chord(<<"C", "4">>, <<<<"1">>, <<"3">>, <<"5">>>>, Num(1, 0)),
    Chord(<<"C", "4">>, <<<<"1">>, <<"8">>, <<"4">>>>, Num(2, 0)),
    Chord(<<"C", "9">>, <<<<"8">>>>, Num(5, 1)),
    Chord(<<"2", "0", "0", "0", "0">>, <<<<"1", "5">>>>, Num(1, 0)),
    Chord(<<"A", "4">>, ManyIntervals, Num(15, 1)),
    Chord(<<"2", "6", "1", ".", "6", "3">>, <<<<"1">>, <<"5">>>>, Num(0, 0)),
    Chord(<<"A", "0">>, <<<<"b", "2">>>>, Num(-1, 0)),
    Chord(<<"4", "5", "2", ".", "8", "9">>, <<<<"1">>>>, Num(1, 0)),
    Chord(<<"4", "2", "7", ".", "4", "8">>, <<<<"1">>>>, Num(333, 3)),
    Chord(<<"A", "4">>, <<>>, Num(3, 0)) }

MidiSequences ==
  {<<>>} \cup {[k \in 1..Len(cs) |-> ProcessedChord(cs[k])] :
                 cs \in SeqsUpTo(ExportChords, MaxChords)}

\* the base duration and the tempo of the page handed with the list
ExportSettings == {<<Num(1, 0), 120>>, <<Num(5, 1), 90>>, <<Num(1, 0), 3>>}

-----------------------------------------------------------------------------
(* The page: parseChordSequence as one call *)

\* the loop of parseChordSequence from line k on, cs the chords pushed so far
RECURSIVE ParseFrom(_, _, _)
ParseFrom(ls, k, cs) ==
  IF k > Len(ls)
  THEN IF NoChords(cs) THEN Thrown(NoChordsMsg) ELSE Returned(cs)
  ELSE LET chord == parseChordLine(ls[k])
       IN IF chord.tag = "error" THEN Thrown(LineErrorMsg(k - 1, chord.msg))
          ELSE ParseFrom(ls, k + 1, IF chord.tag = "chord" THEN Append(cs, chord) ELSE cs)

parseChordSequence(text) == ParseFrom(Split(text, "\n"), 1, <<>>)

-----------------------------------------------------------------------------
(* The page: the on-screen keyboard and the chord builder *)

\* most keys in selectedIntervals
MaxSelected == 2
\* Add to Sequence is followed while the text box holds at most this many characters
MaxInputLength == 10

\* the keys of the keyboard the model presses: the lowest and the highest key,
\* a natural and a sharp of the middle octave and the key below middle C
KeyboardKeys ==
  { <<"A", "0">>, <<"B", "3">>, <<"C", "4">>, <<"F", "#", "4">>, <<"C", "8">> }

\* what the text box holds at the start: nothing, or typed text
TypedInputs == { <<>>, <<"x">> }

\* the exponent of noteToFrequency(note) for a key of the keyboard
KeySemitones(note) == noteToFrequency(note).value.semitones

\* Math.round(12 * Math.log2(noteToFrequency(note) / fundFreq))
SemitonesFrom(note, fundamental) == KeySemitones(note) - KeySemitones(fundamental)

\* String(n) for an integer
IntegerToString(n) ==
  IF n < 0 THEN <<"-">> \o NumberToString(0 - n) ELSE NumberToString(n)

\* a % b of JavaScript: the remainder has the sign of the dividend
JsRemainder(a, b) == IF a >= 0 THEN a % b ELSE 0 - ((0 - a) % b)

\* the table semitoneToScaleDegree, for the keys 0..11
SemitoneToScaleDegree ==
  << <<"1">>, <<"b", "2">>, <<"2">>, <<"b", "3">>, <<"3">>, <<"4">>,
     <<"b", "5">>, <<"5">>, <<"b", "6">>, <<"6">>, <<"b", "7">>, <<"7">> >>

\* semitoneToScaleDegree[semitonesInOctave] || "1"
BaseDegree(semitonesInOctave) ==
  IF semitonesInOctave \in 0..11 THEN SemitoneToScaleDegree[semitonesInOctave + 1]
  ELSE <<"1">>

\* Math.floor(totalSemitones / 12)
OctavesOfSemitones(totalSemitones) == totalSemitones \div 12

semitonesToScaleDegree(totalSemitones) ==
  LET octaves == OctavesOfSemitones(totalSemitones)
      semitonesInOctave == JsRemainder(totalSemitones, 12)
      baseDegree == BaseDegree(semitonesInOctave)
      degreeNumber == ParseInt(SelectSeq(baseDegree, LAMBDA c : c \in Digits))
      accidental == SelectSeq(baseDegree, LAMBDA c : c \notin Digits)
      compoundDegree == degreeNumber + (octaves * 7)
  IN IF octaves = 0 THEN baseDegree
     ELSE accidental \o IntegerToString(compoundDegree)

\* selectedIntervals.sort by noteToFrequency: the keys in rising pitch
RECURSIVE SortByFrequency(_)
SortByFrequency(notes) ==
  IF notes = <<>> THEN <<>>
  ELSE LET lowest == CHOOSE k \in 1..Len(notes) :
                       \A j \in 1..Len(notes) :
                         KeySemitones(notes[k]) <= KeySemitones(notes[j])
       IN <<notes[lowest]>>
            \o SortByFrequency([j \in 1..(Len(notes) - 1) |->
                                  IF j < lowest THEN notes[j] ELSE notes[j + 1]])

\* sortedIntervals.map(...): the scale degree written for each key
ScaleDegrees(fundamental, sortedIntervals) ==
  [k \in 1..Len(sortedIntervals) |->
     semitonesToScaleDegree(SemitonesFrom(sortedIntervals[k], fundamental))]

\* `${selectedFundamental}: ${intervalsStr}, duration=1`
NewLine(fundamental, intervals) ==
  fundamental \o <<":", " ">>
    \o Join(ScaleDegrees(fundamental, SortByFrequency(intervals)), ",")
    \o <<",", " ">> \o kwDuration \o <<"=", "1">>

\* prev ? `${prev}\n${newLine}` : newLine
AppendLine(prev, newLine) ==
  IF prev # <<>> THEN prev \o <<"\n">> \o newLine ELSE newLine

\* handleKeySelect with no fundamental chosen yet
SelectFundamental ==
  /\ selectedFundamental = <<>>
  /\ \E note \in KeyboardKeys :
       /\ selectedFundamental' = note
       /\ selectedIntervals' = <<>>
  /\ UNCHANGED <<chordInput, resultVars, playVars, audioVars, notPage>>

\* handleKeySelect on a key that is not among the intervals: it is appended
SelectInterval ==
  /\ selectedFundamental # <<>>
  /\ Len(selectedIntervals) < MaxSelected
  /\ \E note \in KeyboardKeys :
       /\ \A k \in 1..Len(selectedIntervals) : selectedIntervals[k] # note
       /\ selectedIntervals' = Append(selectedIntervals, note)
  /\ UNCHANGED <<chordInput, selectedFundamental, resultVars, playVars, audioVars, notPage>>

\* handleKeySelect on a key that is among the intervals: it is filtered out
DeselectInterval ==
  /\ selectedFundamental # <<>>
  /\ \E k \in 1..Len(selectedIntervals) :
       selectedIntervals' = SelectSeq(selectedIntervals,
                                      LAMBDA n : n # selectedIntervals[k])
  /\ UNCHANGED <<chordInput, selectedFundamental, resultVars, playVars, audioVars, notPage>>

\* newChord
NewChord ==
  /\ selectedFundamental # <<>>
  /\ selectedFundamental' = <<>>
  /\ selectedIntervals' = <<>>
  /\ UNCHANGED <<chordInput, resultVars, playVars, audioVars, notPage>>

\* addToSequence past its early return; the sort reorders the state array itself
AddToSequence ==
  /\ selectedFundamental # <<>> /\ Len(selectedIntervals) # 0
  /\ Len(chordInput) <= MaxInputLength
  /\ selectedIntervals' = SortByFrequency(selectedIntervals)
  /\ chordInput' = AppendLine(chordInput, NewLine(selectedFundamental, selectedIntervals))
  /\ UNCHANGED <<selectedFundamental, resultVars, playVars, audioVars, notPage>>

-----------------------------------------------------------------------------
(* AudioPlayer: playSequence, stop and the completion timers *)

\* most playSequence calls of a behaviour
MaxPlays == 3

\* new AudioPlayer(): the fields after construction
NewAudioPlayer == [audioContext |-> FALSE, isPlaying |-> FALSE, currentScheduledNodes |-> {}]

\* a playSequence call that has reached 'await this.init()'.  The oscillators
\* of one call are followed together: "awaiting" before they are scheduled,
\* then "sounding", then "finished" (their stop time has passed) or "stopped"
\* (stop() has stopped them).  timer is the setTimeout of the call; parsed is
\* history, the text the page had parsed last when it made the call.
NewPlayback(player, chordSequence, fromPage) ==
  [player |-> player, phase |-> "awaiting", timer |-> "none", scheduled |-> 0,
   chordSequence |-> chordSequence, fromPage |-> fromPage,
   parsed |-> IF fromPage THEN lastParsed ELSE None]

\* the calls whose oscillators have been scheduled
Scheduled == {p \in 1..Len(playbacks) : playbacks[p].phase # "awaiting"}

\* init() up to its await: the audio context exists from then on
InitContext(player) == [player EXCEPT !.audioContext = TRUE]

\* stop(): the oscillators held in currentScheduledNodes are stopped, the list
\* is emptied and isPlaying is reset; nothing at all without an audio context
StopPlayer(player) ==
  IF ~player.audioContext THEN player
  ELSE [player EXCEPT !.currentScheduledNodes = {}, !.isPlaying = FALSE]

\* oscillator.stop(currentTime + 0.01) on the nodes of the list: an oscillator
\* that has finished stays finished
StopNodes(pbs, nodes) ==
  [p \in 1..Len(pbs) |->
     IF p \in nodes /\ pbs[p].phase = "sounding"
     THEN [pbs[p] EXCEPT !.phase = "stopped"]
     ELSE pbs[p]]

\* the nodes a stop() of the player reaches
NodesToStop(player) ==
  IF player.audioContext THEN player.currentScheduledNodes ELSE {}

\* playSequence called directly on a player: init() runs up to its await
AudioPlaySequence ==
  /\ Len(playbacks) < MaxPlays
  /\ \E pl \in 1..Len(players) :
       /\ players' = [players EXCEPT ![pl] = InitContext(players[pl])]
       /\ playbacks' = Append(playbacks, NewPlayback(pl, <<>>, FALSE))
  /\ UNCHANGED <<pageVars, notPage>>

\* playSequence after the await: stop(), isPlaying = true, the oscillators are
\* scheduled and pushed to currentScheduledNodes, the timer is started
PlaySequenceResume ==
  /\ \E p \in 1..Len(playbacks) :
       /\ playbacks[p].phase = "awaiting"
       /\ LET pl == playbacks[p].player
              stopped == StopNodes(playbacks, NodesToStop(players[pl]))
          IN /\ players' = [players EXCEPT ![pl] =
                              [StopPlayer(players[pl]) EXCEPT
                                 !.isPlaying = TRUE, !.currentScheduledNodes = {p}]]
             /\ playbacks' = [stopped EXCEPT ![p] =
                                [stopped[p] EXCEPT !.phase = "sounding",
                                                   !.timer = "pending",
                                                   !.scheduled = Cardinality(Scheduled) + 1]]
  /\ UNCHANGED <<pageVars, notPage>>

\* stop() called directly on a player
AudioStop ==
  /\ \E pl \in 1..Len(players) :
       /\ players' = [players EXCEPT ![pl] = StopPlayer(players[pl])]
       /\ playbacks' = StopNodes(playbacks, NodesToStop(players[pl]))
  /\ UNCHANGED <<pageVars, notPage>>

\* time passes: the stop time of the oscillators of a call is reached
OscillatorsEnd ==
  /\ \E p \in 1..Len(playbacks) :
       /\ playbacks[p].phase = "sounding"
       /\ playbacks' = [playbacks EXCEPT ![p] = [playbacks[p] EXCEPT !.phase = "finished"]]
  /\ UNCHANGED <<players, pageVars, notPage>>

\* the timer of a call fires, 0.1 s after the stop time of its oscillators:
\* isPlaying = false, currentScheduledNodes = [], and the promise is resolved,
\* on which the page's playSequence, when it made the call, sets its isPlaying
\* to false
PageAfterPlayback(fromPage) == IF fromPage THEN FALSE ELSE pageIsPlaying

CompletionTimer ==
  /\ \E p \in 1..Len(playbacks) :
       /\ playbacks[p].timer = "pending"
       /\ playbacks[p].phase \in {"finished", "stopped"}
       /\ players' = [players EXCEPT ![playbacks[p].player] =
                        [players[playbacks[p].player] EXCEPT
                           !.isPlaying = FALSE, !.currentScheduledNodes = {}]]
       /\ playbacks' = [playbacks EXCEPT ![p] = [playbacks[p] EXCEPT !.timer = "fired"]]
       /\ pageIsPlaying' = PageAfterPlayback(playbacks[p].fromPage)
  /\ UNCHANGED <<keyboardVars, resultVars, darkMode, audioPlayerRef, notPage>>

-----------------------------------------------------------------------------
(* The page: Parse & Display, Play, Stop, the MIDI exports and dark mode *)

\* most AudioPlayer instances of a behaviour
MaxPlayers == 2
\* most presses of Play in a behaviour of the page
MaxPagePlays == 1

\* texts typed into the chord sequence box: one chord, two chords, a line
\* without a colon, and a chord whose second interval the tuning rejects
PageTexts ==
  { <<"C", "4", ":", "1", ",", "5">>,
    <<"A", "4", ":", "3", "\n", "C", "4", ":", "1", ",", "d", "u", "r", "a", "t", "i",
      "o", "n", "=", "2">>,
    <<"C", "4">>,
    <<"C", "4", ":", "1", "\n", "C", "4", ":", "5", ",", "-", "6">> }

\* the callback of parsedChords.map throws on this chord
ChordThrows(chord) ==
  LET pythagoreanChord == calculateChord(Str(chord.fundamental), chord.intervals)
  IN IF pythagoreanChord.tag = "error" THEN TRUE
     ELSE EqualTemperamentMap(pythagoreanChord.value.fundamental,
                              chord.intervals).tag = "error"

\* what parseAndDisplay hands to setFrequencies, given what parseChordSequence
\* returned or threw: processedSequence in the try block, [] in the catch block
FrequenciesKeptOnError(parsedChords) ==
  IF parsedChords.tag = "error" THEN pageFrequencies
  ELSE IF \E k \in 1..Len(parsedChords.value) : ChordThrows(parsedChords.value[k])
       THEN pageFrequencies
       ELSE [k \in 1..Len(parsedChords.value) |-> ProcessedChord(parsedChords.value[k])]

FrequenciesAfterParse(parsedChords) ==
  IF parsedChords.tag = "error" THEN <<>>
  ELSE IF \E k \in 1..Len(parsedChords.value) : ChordThrows(parsedChords.value[k])
       THEN <<>>
       ELSE [k \in 1..Len(parsedChords.value) |-> ProcessedChord(parsedChords.value[k])]

Parsed(text) == [tag |-> "parsed", text |-> text]

\* the call of a generator made by an export handler, with the text parsed last
ExportCall(name, sequence) ==
  [tag |-> "export", generator |-> name, sequence |-> sequence, parsed |-> lastParsed]

\* onChange of the chord sequence box
TypeChordInput ==
  /\ \E text \in PageTexts : chordInput' = text
  /\ UNCHANGED <<selectedFundamental, selectedIntervals, resultVars, playVars, audioVars,
                 notPage>>

\* parseAndDisplay
ParseAndDisplay ==
  /\ \E parsedChords \in {parseChordSequence(chordInput)} :
       pageFrequencies' = FrequenciesAfterParse(parsedChords)
  /\ lastParsed' = Parsed(chordInput)
  /\ UNCHANGED <<keyboardVars, exportCall, playVars, audioVars, notPage>>

\* the Play button, enabled unless isPlaying or frequencies is empty, and the
\* page's playSequence up to its await
PagePlay ==
  /\ ~pageIsPlaying /\ Len(pageFrequencies) # 0
  /\ audioPlayerRef # 0
  /\ Len(playbacks) < MaxPagePlays
  /\ pageIsPlaying' = TRUE
  /\ players' = [players EXCEPT ![audioPlayerRef] = InitContext(players[audioPlayerRef])]
  /\ playbacks' = Append(playbacks, NewPlayback(audioPlayerRef, pageFrequencies, TRUE))
  /\ UNCHANGED <<keyboardVars, resultVars, darkMode, audioPlayerRef, notPage>>

\* the Stop button, enabled while isPlaying, and stopPlayback
PageStop ==
  /\ pageIsPlaying
  /\ audioPlayerRef # 0
  /\ players' = [players EXCEPT ![audioPlayerRef] = StopPlayer(players[audioPlayerRef])]
  /\ playbacks' = StopNodes(playbacks, NodesToStop(players[audioPlayerRef]))
  /\ pageIsPlaying' = FALSE
  /\ UNCHANGED <<keyboardVars, resultVars, darkMode, audioPlayerRef, notPage>>

\* the dark mode switch, and the effect that runs when darkMode has changed:
\* audioPlayerRef.current = new AudioPlayer()
ToggleDarkMode ==
  /\ Len(players) < MaxPlayers
  /\ darkMode' = ~darkMode
  /\ players' = Append(players, NewAudioPlayer)
  /\ audioPlayerRef' = Len(players) + 1
  /\ UNCHANGED <<keyboardVars, resultVars, pageIsPlaying, playbacks, notPage>>

\* exportPythagoreanMIDI and exportEqualTemperamentMIDI past their early return
ExportMIDI ==
  /\ Len(pageFrequencies) # 0
  /\ \E name \in {"pythagorean", "equal"} :
       exportCall' = ExportCall(name, pageFrequencies)
  /\ UNCHANGED <<keyboardVars, pageFrequencies, lastParsed, playVars, audioVars, notPage>>

-----------------------------------------------------------------------------
(* Specifications *)

ParserIdle ==
  /\ input = <<>> /\ lines = <<>> /\ i = 0 /\ chords = <<>>
  /\ lineResult = None /\ examined = 0 /\ pc = "idle"
  /\ result = None /\ error = None

ValidateIdle == vchord = None /\ vresult = None

TuningIdle == interval = <<>> /\ ratioResult = None /\ etResult = None

ChordIdle ==
  /\ chordFundamental = None /\ chordIntervals = <<>>
  /\ noteResult = None /\ chordResult = None /\ equalTemperamentNotes = None

MidiIdle ==
  /\ generator = "idle" /\ midiSequence = <<>>
  /\ midiBaseDuration = None /\ midiTempo = 0
  /\ chordIndex = 0 /\ noteTrack = <<>> /\ noteLog = <<>> /\ midiFile = <<>>

VarLengthIdle == varLengthValue = None /\ varLengthBytes = <<>>

KeyboardIdle == chordInput = <<>> /\ selectedFundamental = <<>> /\ selectedIntervals = <<>>

ResultIdle == pageFrequencies = <<>> /\ lastParsed = None /\ exportCall = None

PlayIdle == darkMode = FALSE /\ pageIsPlaying = FALSE /\ audioPlayerRef = 0

AudioIdle == players = <<>> /\ playbacks = <<>>

PageIdle == KeyboardIdle /\ ResultIdle /\ PlayIdle /\ AudioIdle

InitParser ==
  /\ input \in ParserInputs
  /\ lines = <<>> /\ i = 0 /\ chords = <<>>
  /\ lineResult = None /\ examined = 0 /\ pc = "start"
  /\ result = None /\ error = None
  /\ ValidateIdle /\ TuningIdle /\ ChordIdle /\ MidiIdle /\ VarLengthIdle /\ PageIdle

NextParser ==
  \/ SeqSplit
  \/ SeqLineNull
  \/ SeqLineChord
  \/ SeqLineThrow
  \/ SeqEmptyThrow
  \/ SeqReturn

SpecParser == InitParser /\ [][NextParser]_vars

InitValidate ==
  /\ vchord \in ValidateInputs
  /\ vresult = None
  /\ ParserIdle /\ TuningIdle /\ ChordIdle /\ MidiIdle /\ VarLengthIdle /\ PageIdle

NextValidate ==
  \/ ValidateThrowFundamental
  \/ ValidateThrowIntervals
  \/ ValidateThrowDuration
  \/ ValidateReturnTrue

SpecValidate == InitValidate /\ [][NextValidate]_vars

InitTuning ==
  /\ interval \in IntervalInputs
  /\ ratioResult = None /\ etResult = None
  /\ ParserIdle /\ ValidateIdle /\ ChordIdle /\ MidiIdle /\ VarLengthIdle /\ PageIdle

NextTuning ==
  \/ GetIntervalRatioReturn
  \/ GetIntervalRatioThrow
  \/ EqualTemperamentReturn
  \/ EqualTemperamentThrow

SpecTuning == InitTuning /\ [][NextTuning]_vars

InitChord ==
  /\ chordFundamental \in FundamentalInputs
  /\ chordIntervals \in IntervalLists
  /\ noteResult = None /\ chordResult = None /\ equalTemperamentNotes = None
  /\ ParserIdle /\ ValidateIdle /\ TuningIdle /\ MidiIdle /\ VarLengthIdle /\ PageIdle

NextChord ==
  \/ NoteToFrequencyReturn
  \/ NoteToFrequencyThrow
  \/ CalculateChordReturn
  \/ CalculateChordThrow
  \/ EqualTemperamentNotesReturn
  \/ EqualTemperamentNotesThrow

SpecChord == InitChord /\ [][NextChord]_vars

InitMidi ==
  /\ generator \in {"pythagorean", "equal"}
  /\ midiSequence \in MidiSequences
  /\ \E setting \in ExportSettings :
       midiBaseDuration = setting[1] /\ midiTempo = setting[2]
  /\ chordIndex = 0 /\ noteTrack = <<>> /\ noteLog = <<>> /\ midiFile = <<>>
  /\ ParserIdle /\ ValidateIdle /\ TuningIdle /\ ChordIdle /\ VarLengthIdle /\ PageIdle

NextMidi ==
  \/ PythagoreanChordStep
  \/ PythagoreanFinish
  \/ EqualTemperamentChordStep
  \/ EqualTemperamentFinish

SpecMidi == InitMidi /\ [][NextMidi]_vars

InitVarLength ==
  /\ varLengthValue \in VarLengthInputs
  /\ varLengthBytes = <<>>
  /\ ParserIdle /\ ValidateIdle /\ TuningIdle /\ ChordIdle /\ MidiIdle /\ PageIdle

NextVarLength == WriteVarLength

SpecVarLength == InitVarLength /\ [][NextVarLength]_vars

InitKeyboard ==
  /\ chordInput \in TypedInputs
  /\ selectedFundamental = <<>> /\ selectedIntervals = <<>>
  /\ ResultIdle /\ PlayIdle /\ AudioIdle
  /\ ParserIdle /\ ValidateIdle /\ TuningIdle /\ ChordIdle /\ MidiIdle /\ VarLengthIdle

NextKeyboard ==
  \/ SelectFundamental
  \/ SelectInterval
  \/ DeselectInterval
  \/ NewChord
  \/ AddToSequence

SpecKeyboard == InitKeyboard /\ [][NextKeyboard]_vars

InitAudio ==
  /\ players = <<NewAudioPlayer>>
  /\ playbacks = <<>>
  /\ KeyboardIdle /\ ResultIdle /\ PlayIdle
  /\ ParserIdle /\ ValidateIdle /\ TuningIdle /\ ChordIdle /\ MidiIdle /\ VarLengthIdle

NextAudio ==
  \/ AudioPlaySequence
  \/ PlaySequenceResume
  \/ AudioStop
  \/ OscillatorsEnd
  \/ CompletionTimer

SpecAudio == InitAudio /\ [][NextAudio]_vars

\* the page after its first render: the effect has made the first AudioPlayer
InitPage ==
  /\ KeyboardIdle /\ ResultIdle
  /\ darkMode = FALSE /\ pageIsPlaying = FALSE /\ audioPlayerRef = 1
  /\ players = <<NewAudioPlayer>>
  /\ playbacks = <<>>
  /\ ParserIdle /\ ValidateIdle /\ TuningIdle /\ ChordIdle /\ MidiIdle /\ VarLengthIdle

NextPage ==
  \/ TypeChordInput
  \/ ParseAndDisplay
  \/ PagePlay
  \/ PageStop
  \/ ToggleDarkMode
  \/ ExportMIDI
  \/ PlaySequenceResume
  \/ OscillatorsEnd
  \/ CompletionTimer

SpecPage == InitPage /\ [][NextPage]_vars

-----------------------------------------------------------------------------
(* Properties of the parser *)

\* the lines of the input, and the line handed to the last parseChordLine call
InputLines == Split(input, "\n")
LastLine == InputLines[examined]

\* a line on which parseChordLine throws
Malformed(l) == parseChordLine(l).tag = "error"
MalformedAt == {k \in 1..Len(InputLines) : Malformed(InputLines[k])}

\* a line whose first non-white-space characters are '#' or '//', or that has none
Skippable(l) ==
  LET nw == {k \in 1..Len(l) : ~IsWs(l[k])}
  IN \/ nw = {}
     \/ l[Min(nw)] = "#"
     \/ l[Min(nw)] = "/" /\ Min(nw) < Len(l) /\ l[Min(nw) + 1] = "/"

\* the trimmed comma-separated parts after the first colon of a line with a colon
WrittenParts(l) ==
  LET colon == Min({k \in 1..Len(l) : l[k] = ":"})
      raw == Split(SubSeq(l, colon + 1, Len(l)), ",")
  IN [k \in 1..Len(raw) |-> Trim(raw[k])]

\* a part that begins with the keyword 'duration' in any letter case
HasKeyword(part) ==
  /\ Len(part) >= Len(kwDuration)
  /\ \A k \in 1..Len(kwDuration) : ToLowerCase(<<part[k]>>) = <<kwDuration[k]>>

\* the non-empty, non-duration parts in their written order
WrittenIntervals(l) ==
  SelectSeq(WrittenParts(l), LAMBDA q : q # <<>> /\ ~HasKeyword(q))

(* C1: parseChordSequence fails fast.  When at least one line of the input  *)
(* is malformed, the call never returns a chord list; once the first        *)
(* malformed line (counting blank and comment lines, from 1) has been       *)
(* handed to parseChordLine the call has thrown an error whose message      *)
(* starts with "Line N: " for that line's N, and no later line is examined. *)
C1_FailFast ==
  MalformedAt # {} =>
    /\ pc # "returned" /\ result = None
    /\ examined <= Min(MalformedAt)
    /\ examined = Min(MalformedAt) =>
         /\ pc = "thrown"
         /\ SubSeq(error, 1, 3) = <<"Line ", Min(MalformedAt), ": ">>
         /\ SubSeq(error, 4, Len(error)) = parseChordLine(InputLines[Min(MalformedAt)]).msg
    /\ pc = "thrown" => examined = Min(MalformedAt)

\* a comment line, then the first malformed line, then another malformed line
C1_Witness ==
  /\ pc = "thrown"
  /\ Len(InputLines) = 3
  /\ Skippable(InputLines[1]) /\ InputLines[1] # <<>>
  /\ MalformedAt = {2, 3}
  /\ error[2] = 2

(* C2: parseChordLine returns null, and does not throw, for every line that *)
(* after trimming is empty or starts with '#' or '//'; parseChordSequence   *)
(* on an input all of whose lines are such lines (the empty input among     *)
(* them) collects no chord, never returns, and throws the empty-input error *)
(* once every line has been examined.                                       *)
C2_CommentsSkipped ==
  /\ (examined >= 1 /\ Skippable(LastLine)) => lineResult = NullLine
  /\ (\A k \in 1..Len(InputLines) : Skippable(InputLines[k])) =>
       /\ chords = <<>> /\ result = None /\ pc # "returned"
       /\ pc = "thrown" => error = NoChordsMsg /\ examined = Len(InputLines)

\* a blank line, a '#' line and a '//' line, all skipped, then the error
C2_Witness ==
  /\ pc = "thrown" /\ error = NoChordsMsg
  /\ Len(InputLines) = 3
  /\ \E a, b, c \in 1..3 :
       /\ Trim(InputLines[a]) = <<>>
       /\ StartsWith(Trim(InputLines[b]), <<"#">>)
       /\ StartsWith(Trim(InputLines[c]), <<"/", "/">>)

(* C3: for every successfully parsed line the chord's intervals are exactly *)
(* the non-empty, non-duration comma-separated parts (trimmed) after the    *)
(* first colon, in their written order and with duplicates kept, wherever   *)
(* the duration token stands; the fundamental is the trimmed text before    *)
(* the first colon.  The chord pushed to the list is that chord.            *)
C3_IntervalsInOrder ==
  (examined >= 1 /\ lineResult.tag = "chord") =>
    /\ lineResult.intervals = WrittenIntervals(LastLine)
    /\ lineResult.fundamental =
         Trim(SubSeq(LastLine, 1, Min({k \in 1..Len(LastLine) : LastLine[k] = ":"}) - 1))
    /\ pc = "loop" => chords[Len(chords)] = lineResult

\* a duration token between two equal intervals
C3_Witness ==
  /\ lineResult.tag = "chord"
  /\ Len(WrittenParts(LastLine)) = 3
  /\ HasKeyword(WrittenParts(LastLine)[2])
  /\ lineResult.intervals = <<<<"1">>, <<"1">>>>

(* C4: every chord returned by parseChordLine, and every chord of a list    *)
(* returned by parseChordSequence, has at least one interval and a duration *)
(* that is a number greater than 0; the duration is 1 when the line has no  *)
(* duration token.                                                          *)
ChordWellFormed(c) ==
  /\ Len(c.intervals) > 0
  /\ c.duration.kind = "num" /\ c.duration.m > 0

C4_ChordInvariant ==
  /\ lineResult.tag = "chord" =>
       /\ ChordWellFormed(lineResult)
       /\ (\A k \in 1..Len(WrittenParts(LastLine)) : ~HasKeyword(WrittenParts(LastLine)[k]))
            => lineResult.duration = Num(1, 0)
  /\ \A k \in 1..Len(chords) : ChordWellFormed(chords[k])
  /\ pc = "returned" => \A k \in 1..Len(result) : ChordWellFormed(result[k])

\* a returned list with a chord of default duration and one of duration 2
C4_Witness ==
  /\ pc = "returned"
  /\ \E j, k \in 1..Len(result) :
       result[j].duration = Num(1, 0) /\ result[k].duration = Num(2, 0)

\* what a call of parseChordLine came to: "ok", "null" or the error's kind
OutcomeKind(r) ==
  IF r.tag = "chord" THEN "ok" ELSE IF r.tag = "null" THEN "null" ELSE r.msg[1]

\* a value text that parses to a number <= 0 or to not-a-number
BadValue(text) ==
  LET d == ParseFloat(text) IN d.kind = "nan" \/ (d.kind = "num" /\ d.m <= 0)

\* the run of [0-9.] of a part: the one after its first '=' that such a run
\* follows (white space apart); None when the part has no such '='
EqRunValue(part) ==
  LET at == {j \in 1..Len(part) :
               /\ part[j] = "="
               /\ RunEnd(part, RunEnd(part, j + 1, WhiteSpace), DurationChars)
                    > RunEnd(part, j + 1, WhiteSpace)}
  IN IF at = {} THEN None
     ELSE LET from == RunEnd(part, Min(at) + 1, WhiteSpace)
          IN [tag |-> "match",
              group |-> SubSeq(part, from, RunEnd(part, from, DurationChars) - 1)]

\* the keyword occurs at position p of the part
KeywordAt(part, p) ==
  /\ p + Len(kwDuration) - 1 <= Len(part)
  /\ \A k \in 1..Len(kwDuration) : ToLowerCase(<<part[p + k - 1]>>) = <<kwDuration[k]>>

\* the keyword at p is followed by white space, '=' at eq, white space, and a
\* run of [0-9.] that starts at from
KeywordEqRunAt(part, p, eq, from) ==
  /\ p + Len(kwDuration) <= eq /\ eq < from /\ from <= Len(part)
  /\ \A j \in (p + Len(kwDuration))..(eq - 1) : IsWs(part[j])
  /\ part[eq] = "="
  /\ \A j \in (eq + 1)..(from - 1) : IsWs(part[j])
  /\ part[from] \in DurationChars

\* the run of [0-9.] of a part: the longest one that follows the leftmost
\* occurrence of keyword, white space, '=', white space; None without one
KeywordValue(part) ==
  LET starts == {p \in 1..Len(part) : KeywordAt(part, p)}
      hits == {h \in starts \X (1..Len(part)) \X (1..Len(part)) :
                 KeywordEqRunAt(part, h[1], h[2], h[3])}
  IN IF hits = {} THEN None
     ELSE LET h == CHOOSE x \in hits : \A y \in hits : x[1] <= y[1]
              to == Max({t \in h[3]..Len(part) :
                           \A j \in h[3]..t : part[j] \in DurationChars})
          IN [tag |-> "match", group |-> SubSeq(part, h[3], to)]

\* the outcome of a non-comment, non-blank line, decided in the claim's order;
\* vals[k] is the value text of part k (None when it has none)
DecideLine(l, vals) ==
  IF \A k \in 1..Len(l) : l[k] # ":" THEN MissingColonMsg[1]
  ELSE LET parts == WrittenParts(l)
           bad == {k \in 1..Len(parts) :
                     /\ HasKeyword(parts[k])
                     /\ (vals[k] = None \/ BadValue(vals[k].group))}
       IN IF bad # {}
          THEN IF vals[Min(bad)] = None
               THEN DurationFormatMsg(<<>>)[1]
               ELSE DurationValueMsg(<<>>)[1]
          ELSE IF WrittenIntervals(l) = <<>> THEN NoIntervalsMsg(<<>>)[1] ELSE "ok"

(* C5 as stated: for a non-comment, non-blank line, no ':' gives the        *)
(* missing-colon error; otherwise the first duration part at fault decides: *)
(* the format error when its text contains no '=' followed by a run of      *)
(* [0-9.], the value error when the run parses to <= 0 or not-a-number;     *)
(* otherwise no interval parts gives the no-intervals error; otherwise the  *)
(* line parses.                                                             *)
C5_AsStated ==
  (examined >= 1 /\ ~Skippable(LastLine)) =>
    OutcomeKind(lineResult) =
      DecideLine(LastLine, [k \in 1..Len(WrittenParts(LastLine)) |->
                              EqRunValue(WrittenParts(LastLine)[k])])

(* C5, amended: the same decision, where a duration part has the format     *)
(* error when its text does not contain the keyword 'duration' followed by  *)
(* optional white space, '=', optional white space and a run of [0-9.]      *)
(* (a '=' elsewhere in the part does not count), and the value error when   *)
(* that run parses to <= 0 or not-a-number.                                 *)
C5_ErrorOrder ==
  (examined >= 1 /\ ~Skippable(LastLine)) =>
    OutcomeKind(lineResult) =
      DecideLine(LastLine, [k \in 1..Len(WrittenParts(LastLine)) |->
                              KeywordValue(WrittenParts(LastLine)[k])])

\* a line without intervals whose first duration part has the value 0 and
\* whose last part is the bare keyword: the value error of the first part wins
C5_Witness ==
  /\ examined >= 1 /\ lineResult.tag = "error"
  /\ lineResult.msg[1] = DurationValueMsg(<<>>)[1]
  /\ lineResult.msg[2] = <<"0">>
  /\ WrittenIntervals(LastLine) = <<>>
  /\ Len(WrittenParts(LastLine)) = 3
  /\ WrittenParts(LastLine)[3] = kwDuration

-----------------------------------------------------------------------------
(* Properties of validateChord *)

\* a non-empty string fundamental, a non-empty array of intervals and a
\* duration that is a finite number greater than 0
Acceptable(c) ==
  /\ c.fundamental.type = "string" /\ c.fundamental.v # <<>>
  /\ c.intervals.type = "array" /\ Len(c.intervals.v) > 0
  /\ c.duration.type = "number" /\ c.duration.v.kind = "num" /\ c.duration.v.m > 0

(* C6: validateChord returns true if and only if the fundamental is a       *)
(* non-empty string, the intervals are a non-empty array and the duration   *)
(* is a finite number greater than 0; in every other case, a duration that  *)
(* is not-a-number or infinite among them, it throws.                       *)
C6_ValidateIff ==
  vresult # None =>
    IF Acceptable(vchord) THEN vresult = Returned(TRUE) ELSE vresult.tag = "error"

-----------------------------------------------------------------------------
(* Properties of the tuning engine *)

\* the tabulated Pythagorean fractions: symbol, numerator, denominator
Tabulated ==
  { <<<<"1">>, 1, 1>>, <<<<"b", "2">>, 256, 243>>, <<<<"2">>, 9, 8>>,
    <<<<"b", "3">>, 32, 27>>, <<<<"3">>, 81, 64>>, <<<<"4">>, 4, 3>>,
    <<<<"#", "4">>, 729, 512>>, <<<<"b", "5">>, 729, 512>>, <<<<"5">>, 3, 2>>,
    <<<<"b", "6">>, 128, 81>>, <<<<"6">>, 27, 16>>, <<<<"b", "7">>, 16, 9>>,
    <<<<"7">>, 243, 128>>, <<<<"8">>, 2, 1>> }

\* the outcome is the return of a ratio equal to n / d
ReturnsRatio(outcome, n, d) ==
  /\ outcome.tag = "returned"
  /\ outcome.value.kind = "frac"
  /\ outcome.value.n * d = n * outcome.value.d

TokenAccidental(t) == IF t[1] \in {"#", "b"} THEN <<t[1]>> ELSE <<>>
TokenDegree(t) == DigitsValue(SubSeq(t, Len(TokenAccidental(t)) + 1, Len(t)))
IsDegreeToken(t) ==
  /\ t # <<>>
  /\ Len(t) > Len(TokenAccidental(t))
  /\ \A k \in (Len(TokenAccidental(t)) + 1)..Len(t) : t[k] \in Digits

\* the base symbol of a compound token: its accidental and ((d - 1) mod 7) + 1
BaseSymbol(t) == TokenAccidental(t) \o NumberToString(((TokenDegree(t) - 1) % 7) + 1)

(* C8: for every degree d > 8 and accidental a, getIntervalRatio(a+d) is    *)
(* getIntervalRatio(a + (((d-1) mod 7) + 1)) times 2^floor((d-1)/7), and it *)
(* throws exactly when that base symbol is not in the table; ratio('9') is  *)
(* twice ratio('2') and ratio('15') is 4.                                   *)
C8_CompoundRatios ==
  (ratioResult # None /\ IsDegreeToken(interval) /\ TokenDegree(interval) > 8) =>
    /\ IF BaseSymbol(interval) \in {t[1] : t \in Tabulated}
       THEN /\ getIntervalRatio(BaseSymbol(interval)).tag = "returned"
            /\ ReturnsRatio(ratioResult,
                 getIntervalRatio(BaseSymbol(interval)).value.n
                   * Pow2((TokenDegree(interval) - 1) \div 7),
                 getIntervalRatio(BaseSymbol(interval)).value.d)
       ELSE ratioResult.tag = "error"
    /\ interval = <<"9">> => ReturnsRatio(ratioResult, 2 * 9, 8)
    /\ interval = <<"1", "5">> => ReturnsRatio(ratioResult, 4, 1)

\* the flat 21st: the minor seventh two octaves up
C8_Witness ==
  /\ interval = <<"b", "2", "1">>
  /\ ratioResult = Returned(Frac(64, 9))

(* C9: getIntervalRatio throws, and returns nothing, for every symbol       *)
(* (trimmed) that is not a table key and either has the form [#b]?digits    *)
(* with a degree <= 8 or does not have that form at all.                    *)
C9_NoSilentFallback ==
  (/\ ratioResult # None
   /\ Trim(interval) \notin {t[1] : t \in Tabulated}
   /\ IF IsDegreeToken(Trim(interval)) THEN TokenDegree(Trim(interval)) <= 8 ELSE TRUE)
    => ratioResult.tag = "error"

\* the semitone count tabulated for a base symbol
TabulatedSemitones ==
  { <<<<"1">>, 0>>, <<<<"b", "2">>, 1>>, <<<<"2">>, 2>>, <<<<"b", "3">>, 3>>,
    <<<<"3">>, 4>>, <<<<"4">>, 5>>, <<<<"#", "4">>, 6>>, <<<<"b", "5">>, 6>>,
    <<<<"5">>, 7>>, <<<<"b", "6">>, 8>>, <<<<"6">>, 9>>, <<<<"b", "7">>, 10>>,
    <<<<"7">>, 11>>, <<<<"8">>, 12>> }

(* C10, on the tokens of the form [#b]?digits: calculateEqualTemperament    *)
(* returns exactly when getIntervalRatio returns, the semitone count of its *)
(* result is then the tabulated count of the base symbol plus               *)
(* 12 * floor((degree-1)/7) for a degree above 8, and it throws when the    *)
(* derived base symbol is not in the table.                                 *)
C10_SameCompounding ==
  (ratioResult # None /\ etResult # None /\ IsDegreeToken(interval)) =>
    /\ etResult.tag = "returned" <=> ratioResult.tag = "returned"
    /\ etResult.tag = "returned" =>
         \E t \in TabulatedSemitones :
           /\ t[1] = IF TokenDegree(interval) > 8 THEN BaseSymbol(interval) ELSE interval
           /\ etResult.value =
                [kind |-> "et",
                 semitones |-> t[2] + IF TokenDegree(interval) > 8
                                      THEN 12 * ((TokenDegree(interval) - 1) \div 7)
                                      ELSE 0]
    /\ (TokenDegree(interval) > 8 /\ BaseSymbol(interval) \notin {t[1] : t \in Tabulated})
         => etResult.tag = "error"

-----------------------------------------------------------------------------
(* Properties of noteToFrequency and calculateChord *)

\* the chromatic scale from C, enharmonic names side by side
ChromaticScale ==
  << {<<"C">>}, {<<"C", "#">>, <<"D", "b">>}, {<<"D">>}, {<<"D", "#">>, <<"E", "b">>},
     {<<"E">>}, {<<"F">>}, {<<"F", "#">>, <<"G", "b">>}, {<<"G">>},
     {<<"G", "#">>, <<"A", "b">>}, {<<"A">>}, {<<"A", "#">>, <<"B", "b">>}, {<<"B">>} >>

\* the letter with its accidental, and the octave, as a note text writes them
WrittenName(note) ==
  IF Len(note) >= 2 /\ note[2] \in {"#", "b"} THEN SubSeq(note, 1, 2) ELSE SubSeq(note, 1, 1)
WrittenOctave(note) ==
  LET text == SubSeq(note, Len(WrittenName(note)) + 1, Len(note))
  IN IF text[1] = "-" THEN 0 - DigitsValue(Tail(text)) ELSE DigitsValue(text)

ChromaticIndex(note) == CHOOSE k \in 1..12 : WrittenName(note) \in ChromaticScale[k]

\* the generated note names whose letter and accidental are on the scale
ScaleNotes ==
  {n \in NoteInputs : \E k \in 1..12 : WrittenName(n) \in ChromaticScale[k]}

\* a is lower than b: an earlier octave, or earlier on the scale in the same one
LowerNote(a, b) ==
  \/ WrittenOctave(a) < WrittenOctave(b)
  \/ WrittenOctave(a) = WrittenOctave(b) /\ ChromaticIndex(a) < ChromaticIndex(b)

(* C11: for every accepted note name the exponent of noteToFrequency is the *)
(* name's place on the chromatic scale counted from A, plus 12 for each     *)
(* octave above 4: A4 has offset 0 and C4 has -9, both names of an          *)
(* enharmonic pair get the same offset in every octave, and a lower note    *)
(* has a strictly smaller offset, within an octave and across octaves.      *)
C11_NoteOffsets ==
  (noteResult # None /\ chordFundamental.v \in ScaleNotes) =>
    /\ noteResult.tag = "returned"
    /\ noteResult.value.kind = "a4"
    /\ noteResult.value.semitones =
         (ChromaticIndex(chordFundamental.v) - 10) + 12 * (WrittenOctave(chordFundamental.v) - 4)
    /\ chordFundamental.v = <<"A", "4">> => noteResult.value.semitones = 0
    /\ chordFundamental.v = <<"C", "4">> => noteResult.value.semitones = -9
    /\ \A n \in ScaleNotes :
         /\ (/\ ChromaticIndex(n) = ChromaticIndex(chordFundamental.v)
             /\ WrittenOctave(n) = WrittenOctave(chordFundamental.v))
              => noteToFrequency(n) = noteResult
         /\ LowerNote(chordFundamental.v, n) =>
              noteToFrequency(n).value.semitones > noteResult.value.semitones
         /\ (/\ WrittenName(chordFundamental.v) = <<"B">> /\ WrittenName(n) = <<"C">>
             /\ WrittenOctave(n) = WrittenOctave(chordFundamental.v) + 1)
              => noteToFrequency(n).value.semitones = noteResult.value.semitones + 1

\* a flat in a negative octave: Bb-1 is 59 semitones below A4
C11_Witness ==
  /\ chordFundamental = Str(<<"B", "b", "-", "1">>)
  /\ noteResult = Returned(A4Pow(-59))

\* an interval symbol the tuning resolves: a tabulated symbol, or an optional
\* accidental and a degree above 8 whose base symbol is tabulated
Resolvable(token) ==
  LET t == Trim(token)
  IN \/ t \in {x[1] : x \in Tabulated}
     \/ /\ IsDegreeToken(t) /\ TokenDegree(t) > 8
        /\ BaseSymbol(t) \in {x[1] : x \in Tabulated}

(* C12: when calculateChord succeeds, its notes list is as long as the      *)
(* interval list and its i-th entry carries the i-th interval, the ratio of *)
(* that interval and the fundamental frequency times that ratio, duplicates *)
(* kept and nothing reordered; the page's equal-temperament list, when      *)
(* built, is index-aligned with it.  When some interval of the list is      *)
(* unresolvable the call returns nothing: it throws.                        *)
C12_NotesAligned ==
  /\ chordResult.tag = "returned" =>
       /\ Len(chordResult.value.notes) = Len(chordIntervals)
       /\ \A k \in 1..Len(chordIntervals) :
            /\ chordResult.value.notes[k].interval = chordIntervals[k]
            /\ getIntervalRatio(chordIntervals[k]).tag = "returned"
            /\ chordResult.value.notes[k].ratio = getIntervalRatio(chordIntervals[k]).value
            /\ chordResult.value.notes[k].frequency =
                 Times(chordResult.value.fundamental, chordResult.value.notes[k].ratio)
  /\ equalTemperamentNotes.tag = "returned" =>
       /\ Len(equalTemperamentNotes.value) = Len(chordResult.value.notes)
       /\ \A k \in 1..Len(chordIntervals) :
            equalTemperamentNotes.value[k].interval = chordResult.value.notes[k].interval
  /\ (chordResult # None /\ \E k \in 1..Len(chordIntervals) : ~Resolvable(chordIntervals[k]))
       => chordResult.tag = "error"

\* the letter with its optional accidental is on the scale and the rest is an
\* optional '-' and digits
IsKnownNote(text) ==
  /\ text # <<>>
  /\ \E k \in 1..12 : WrittenName(text) \in ChromaticScale[k]
  /\ LET rest == SubSeq(text, Len(WrittenName(text)) + 1, Len(text))
         digits == IF rest # <<>> /\ rest[1] = "-" THEN Tail(rest) ELSE rest
     IN digits # <<>> /\ \A k \in 1..Len(digits) : digits[k] \in Digits

\* digits with at most one point among them
IsDecimalText(text) ==
  /\ \E k \in 1..Len(text) : text[k] \in Digits
  /\ \A k \in 1..Len(text) : text[k] \in Digits \cup {"."}
  /\ Cardinality({k \in 1..Len(text) : text[k] = "."}) <= 1

Unsigned(text) == IF text # <<>> /\ text[1] \in {"+", "-"} THEN Tail(text) ELSE text

\* the whole text, white space around it apart, is a numeric literal: a sign,
\* then 'Infinity' or a decimal with an optional exponent
IsNumericLiteral(text) ==
  LET body == Unsigned(Trim(text))
      es == {k \in 1..Len(body) : body[k] \in {"e", "E"}}
  IN \/ body = kwInfinity
     \/ IsDecimalText(body)
     \/ /\ Cardinality(es) = 1
        /\ IsDecimalText(SubSeq(body, 1, Min(es) - 1))
        /\ LET exponent == Unsigned(SubSeq(body, Min(es) + 1, Len(body)))
           IN exponent # <<>> /\ \A k \in 1..Len(exponent) : exponent[k] \in Digits

(* C13: calculateChord takes a string fundamental as a note name first and  *)
(* as a literal number only when that fails: a known note name gives the     *)
(* note's frequency, and every text that is neither a well-formed, known    *)
(* note name nor in its entirety a numeric literal ('E#4', 'Cb3', the empty *)
(* text, a number followed by other characters) makes the call fail with    *)
(* the invalid-fundamental error.                                           *)
C13_FundamentalResolution ==
  (chordResult # None /\ chordFundamental.type = "string") =>
    IF IsKnownNote(chordFundamental.v)
    THEN chordResult.tag = "returned" =>
           chordResult.value.fundamental = noteToFrequency(chordFundamental.v).value
    ELSE IF IsNumericLiteral(chordFundamental.v)
    THEN chordResult.tag = "returned" =>
           chordResult.value.fundamental.kind \in {"num", "inf", "neginf"}
    ELSE /\ chordResult.tag = "error"
         /\ chordResult.msg = <<"Invalid fundamental: ", chordFundamental.v>>

-----------------------------------------------------------------------------
(* Properties of the MIDI encoder *)

\* a byte sequence is a variable-length quantity: at least one byte, the high
\* bit set on every byte but the last, and no leading zero group
WellFormedQuantity(bs) ==
  /\ Len(bs) >= 1
  /\ \A k \in 1..Len(bs) : bs[k] \in 0..255
  /\ \A k \in 1..(Len(bs) - 1) : bs[k] >= 128
  /\ bs[Len(bs)] < 128
  /\ Len(bs) > 1 => bs[1] # 128

\* the number a variable-length quantity stands for, most significant group
\* first, as its two halves
RECURSIVE DecodeQuantity(_)
DecodeQuantity(bs) ==
  IF bs = <<>> THEN [hi |-> 0, lo |-> 0]
  ELSE LET rest == DecodeQuantity(SubSeq(bs, 1, Len(bs) - 1))
           low == rest.lo * 128 + (bs[Len(bs)] % 128)
       IN [hi |-> rest.hi * 128 + (low \div Half), lo |-> low % Half]

(* C19: for every non-negative integer writeVarLength writes a standard     *)
(* variable-length quantity (7 payload bits per byte, most significant      *)
(* group first, the high bit on every byte but the last, no leading zero    *)
(* group, 0 as the single byte 00) that decodes to the number; a number     *)
(* below 2^28 takes at most 4 bytes.                                        *)
C19_VarLengthQuantity ==
  varLengthBytes # <<>> =>
    /\ WellFormedQuantity(varLengthBytes)
    /\ DecodeQuantity(varLengthBytes) = varLengthValue
    /\ varLengthValue = JsInt(0) => varLengthBytes = <<0>>
    /\ varLengthValue.hi < 4096 => Len(varLengthBytes) <= 4

\* the header chunk of a two-track file at 480 ticks per quarter note
MidiHeader == <<77, 84, 104, 100, 0, 0, 0, 6, 0, 1, 0, 2, 1, 224>>
TrackMark == <<77, 84, 114, 107>>

\* the 4-byte big-endian length field of the chunk that starts at position at
ChunkLength(file, at) ==
  ((file[at + 4] * 256 + file[at + 5]) * 256 + file[at + 6]) * 256 + file[at + 7]

\* where the second track chunk of a file starts
SecondChunk(file) == 15 + 8 + ChunkLength(file, 15)

(* C14: the file returned by either generator, for every chord list and the *)
(* empty one too, is the 14 bytes 4D 54 68 64 00 00 00 06 00 01 00 02 01 E0 *)
(* and then exactly two chunks, each 'MTrk', a 4-byte big-endian length and *)
(* that many bytes, the encoded events of the tempo track and of the note   *)
(* track, with nothing before, between or after them.                       *)
C14_FileLayout ==
  midiFile # <<>> =>
    /\ Len(midiFile) >= 14 + 8 + 8
    /\ SubSeq(midiFile, 1, 14) = MidiHeader
    /\ SubSeq(midiFile, 15, 18) = TrackMark
    /\ SecondChunk(midiFile) + 7 <= Len(midiFile)
    /\ SubSeq(midiFile, SecondChunk(midiFile), SecondChunk(midiFile) + 3) = TrackMark
    /\ SecondChunk(midiFile) + 7 + ChunkLength(midiFile, SecondChunk(midiFile))
         = Len(midiFile)
    /\ SubSeq(midiFile, 15 + 8, SecondChunk(midiFile) - 1)
         = encodeTrackEvents(TempoTrack(midiTempo))
    /\ SubSeq(midiFile, SecondChunk(midiFile) + 8, Len(midiFile))
         = encodeTrackEvents(noteTrack)

\* the file of the empty chord list: header, tempo track, a track of one event
C14_Witness ==
  /\ midiSequence = <<>> /\ generator = "equal"
  /\ Len(midiFile) = 14 + 8 + 11 + 8 + 4
  /\ ChunkLength(midiFile, SecondChunk(midiFile)) = 4

IsEndOfTrack(e) == e.data = <<255, 47, 0>>

(* C15: in every file of either generator each track's event list has the   *)
(* end-of-track meta event FF 2F 00, with delta-time 0, exactly once and as *)
(* its last event, and the last three bytes of each track chunk are         *)
(* FF 2F 00; a track still being built has none.                            *)
C15_EndOfTrack ==
  /\ midiFile = <<>> => \A k \in 1..Len(noteTrack) : ~IsEndOfTrack(noteTrack[k])
  /\ midiFile # <<>> =>
       /\ \A t \in {TempoTrack(midiTempo), noteTrack} :
            /\ {k \in 1..Len(t) : IsEndOfTrack(t[k])} = {Len(t)}
            /\ t[Len(t)].deltaTime = 0
       /\ SubSeq(midiFile, SecondChunk(midiFile) - 3, SecondChunk(midiFile) - 1)
            = <<255, 47, 0>>
       /\ SubSeq(midiFile, Len(midiFile) - 2, Len(midiFile)) = <<255, 47, 0>>

\* a Pythagorean file of two chords
C15_Witness ==
  /\ generator = "pythagorean" /\ Len(midiSequence) = 2 /\ midiFile # <<>>
  /\ IsEndOfTrack(noteTrack[Len(noteTrack)])
  /\ Len(noteTrack) > 10

\* the notes of a chord the running generator encodes
EncodedNotes(chord) ==
  IF generator = "pythagorean" THEN chord.pythagoreanNotes ELSE chord.equalTemperamentNotes

IsPitchBend(e) == e.data[1] \in 224..239

\* round(duration * baseDuration * 480 * tempo / 60), halves up
ChordTicks(chord) ==
  LET n == chord.duration.m * midiBaseDuration.m * 480 * midiTempo
      d == Pow10(chord.duration.e + midiBaseDuration.e) * 60
  IN (2 * n + d) \div (2 * d)

\* what the events of one chord must be, pitch bends left out: delta-time,
\* status byte and last data byte of each note-on, then of each note-off
ChordSkeleton(chord) ==
  LET n == Len(EncodedNotes(chord))
  IN [k \in 1..(2 * n) |->
        IF k <= n
        THEN [deltaTime |-> 0, status |-> 144 + Min({k - 1, 15}), last |-> 80]
        ELSE [deltaTime |-> IF k = n + 1 THEN ChordTicks(chord) ELSE 0,
              status |-> 128 + Min({k - n - 1, 15}), last |-> 0]]

\* the events of track 1 without the pitch bends and the end of track
NoteEvents == SelectSeq(noteTrack, LAMBDA e : ~IsPitchBend(e) /\ ~IsEndOfTrack(e))

\* the number of note events of the first c chords
RECURSIVE NoteEventsBefore(_)
NoteEventsBefore(c) ==
  IF c = 0 THEN 0 ELSE NoteEventsBefore(c - 1) + 2 * Len(EncodedNotes(midiSequence[c]))

(* C16: in track 1 the chords are encoded one after another in input order; *)
(* within a chord come, for each note in note order, its note-on (after an  *)
(* optional pitch bend that immediately precedes it), all with delta-time   *)
(* 0, then a note-off for each note in note order, the first with           *)
(* delta-time round(duration * baseDuration * 480 * tempo / 60) and the     *)
(* others with 0.  A note's events are on channel min(noteIndex, 15), and   *)
(* the note-on velocity is 80.                                              *)
C16_TrackOrder ==
  /\ [k \in 1..Len(NoteEvents) |->
        [deltaTime |-> NoteEvents[k].deltaTime, status |-> NoteEvents[k].data[1],
         last |-> NoteEvents[k].data[3]]]
       = Concat([c \in 1..chordIndex |-> ChordSkeleton(midiSequence[c])])
  /\ \A c \in 1..chordIndex : \A k \in 1..Len(EncodedNotes(midiSequence[c])) :
       NoteEvents[NoteEventsBefore(c - 1) + k].data[2]
         = NoteEvents[NoteEventsBefore(c - 1) + Len(EncodedNotes(midiSequence[c])) + k].data[2]
  /\ \A k \in 1..Len(noteTrack) : IsPitchBend(noteTrack[k]) =>
       /\ noteTrack[k].deltaTime = 0
       /\ k < Len(noteTrack)
       /\ noteTrack[k + 1].data[1] = 144 + (noteTrack[k].data[1] - 224)

\* a chord of eighteen notes after another chord: the last three notes share
\* channel 15
C16_Witness ==
  /\ chordIndex = 2
  /\ Len(EncodedNotes(midiSequence[2])) = 18
  /\ NoteEvents[Len(NoteEvents)].data[1] = 128 + 15
  /\ NoteEvents[Len(NoteEvents) - 2].data[1] = 128 + 15
  /\ NoteEvents[Len(NoteEvents) - 17].deltaTime > 0

(* C17: a pitch-bend event (status E0..EF) is in the track exactly when the *)
(* file is the Pythagorean one and the event immediately precedes, on the   *)
(* same channel, the note-on of a note whose deviation is above 0.5 cent in *)
(* size; a note within 0.5 cent gets none, and the equal-temperament        *)
(* generator emits none at all.                                             *)
C17_PitchBendCases ==
  /\ generator = "equal" => \A k \in 1..Len(noteTrack) : ~IsPitchBend(noteTrack[k])
  /\ generator = "pythagorean" =>
       /\ \A n \in 1..Len(noteLog) :
            (noteLog[n].cents > 500 \/ noteLog[n].cents < -500)
              <=> /\ noteLog[n].at > 1
                  /\ noteTrack[noteLog[n].at - 1].data[1] = 224 + noteLog[n].channel
       /\ \A k \in 1..Len(noteTrack) : IsPitchBend(noteTrack[k]) =>
            \E n \in 1..Len(noteLog) :
              /\ noteLog[n].at = k + 1
              /\ noteLog[n].channel = noteTrack[k].data[1] - 224
              /\ (noteLog[n].cents > 500 \/ noteLog[n].cents < -500)

\* a note sharp of the keyboard, one flat of it and one on it, in one track
C17_Witness ==
  /\ generator = "pythagorean"
  /\ \E a, b, c \in 1..Len(noteLog) :
       /\ noteLog[a].cents > 500 /\ IsPitchBend(noteTrack[noteLog[a].at - 1])
       /\ noteLog[b].cents < -500 /\ IsPitchBend(noteTrack[noteLog[b].at - 1])
       /\ noteLog[c].cents = 0 /\ noteLog[c].at > 1
       /\ ~IsPitchBend(noteTrack[noteLog[c].at - 1])

\* the pitch-bend state of a channel after the events: the value of the last
\* pitch bend sent on it, the centre 8192 when none was
BendState(events, channel) ==
  LET sent == {k \in 1..Len(events) : events[k].data[1] = 224 + channel}
  IN IF sent = {} THEN 8192
     ELSE events[Max(sent)].data[2] + 128 * events[Max(sent)].data[3]

(* C18: in the Pythagorean file every note within 0.5 cent of its MIDI      *)
(* pitch plays at that pitch: replaying track 1 with every channel's pitch  *)
(* bend at the centre 8192 at the start, the pitch bend of the note's       *)
(* channel is 8192 when its note-on comes, whatever came before on that     *)
(* channel.                                                                 *)
C18_PlainPitch ==
  generator = "pythagorean" =>
    \A n \in 1..Len(noteLog) :
      (noteLog[n].cents <= 500 /\ noteLog[n].cents >= -500) =>
        BendState(SubSeq(noteTrack, 1, noteLog[n].at - 1), noteLog[n].channel) = 8192

(* C20: for every chord list, notes outside 0..127 and durations of zero or *)
(* less among them, in the track either generator builds and returns every *)
(* data byte of every note-on, note-off and pitch-bend event is in 0..127   *)
(* and every delta-time is a well-formed variable-length quantity.          *)
C20_ValidBytes ==
  \A k \in 1..Len(noteTrack) :
    /\ WellFormedQuantity(writeVarLength(JsInt(noteTrack[k].deltaTime)))
    /\ noteTrack[k].data[1] \in 128..239 =>
         \A j \in 2..Len(noteTrack[k].data) :
           ToUint8Array(noteTrack[k].data)[j] \in 0..127

\* the first track chunk's events as the file holds them
TempoChunk == SubSeq(midiFile, 15 + 8, SecondChunk(midiFile) - 1)

(* C21: for every positive tempo, track 0 of both generators is exactly two *)
(* events at delta-time 0: the tempo meta event FF 51 03 with the three     *)
(* bytes of round(60000000 / tempo), most significant first, and then the   *)
(* end of track; the three bytes decode back to round(60000000 / tempo).    *)
C21_TempoTrack ==
  midiFile # <<>> =>
    /\ Len(TempoChunk) = 11
    /\ SubSeq(TempoChunk, 1, 4) = <<0, 255, 81, 3>>
    /\ (TempoChunk[5] * 256 + TempoChunk[6]) * 256 + TempoChunk[7]
         = (2 * 60000000 + midiTempo) \div (2 * midiTempo)
    /\ SubSeq(TempoChunk, 8, 11) = <<0, 255, 47, 0>>

\* the 14-bit value a pitch-bend event carries, least significant byte first
BendValue(e) == e.data[2] + 128 * e.data[3]

\* round(8192 + cents / 200 * 8192) for cents in thousandths, halves up
RoundedBend(cents) == 8192 + (2 * 8192 * cents + 200000) \div 400000

Clamped(v) == IF v < 0 THEN 0 ELSE IF v > 16383 THEN 16383 ELSE v

(* C22: centsToPitchBend gives round(8192 + cents / 200 * 8192) clamped to  *)
(* 0..16383, 8192 for 0 cents; every pitch-bend event carries that value as *)
(* two 7-bit bytes, the least significant first; and since cents is what is *)
(* left after rounding to the nearest MIDI note, at most 50 in size, the    *)
(* value is in 6144..10240 and the clamp never acts.                        *)
C22_PitchBendValue ==
  /\ centsToPitchBend(0) = 8192
  /\ \A n \in 1..Len(noteLog) :
       /\ noteLog[n].cents >= -50000 /\ noteLog[n].cents <= 50000
       /\ (noteLog[n].at > 1 /\ IsPitchBend(noteTrack[noteLog[n].at - 1])) =>
            LET e == noteTrack[noteLog[n].at - 1]
            IN /\ e.data[2] \in 0..127 /\ e.data[3] \in 0..127
               /\ BendValue(e) = Clamped(RoundedBend(noteLog[n].cents))
               /\ BendValue(e) = RoundedBend(noteLog[n].cents)
               /\ BendValue(e) \in 6144..10240

\* a note almost a quarter tone sharp and one almost a quarter tone flat
C22_Witness ==
  /\ generator = "pythagorean" /\ midiFile # <<>>
  /\ \E j, k \in 1..Len(noteTrack) :
       /\ IsPitchBend(noteTrack[j]) /\ BendValue(noteTrack[j]) = 10240
       /\ IsPitchBend(noteTrack[k]) /\ BendValue(noteTrack[k]) = 6145

\* the absolute tick of event k of track 1: the delta-times added up
RECURSIVE TickAt(_)
TickAt(k) == IF k = 0 THEN 0 ELSE TickAt(k - 1) + noteTrack[k].deltaTime

\* the tick at which the first c chords are over
RECURSIVE TicksBefore(_)
TicksBefore(c) == IF c = 0 THEN 0 ELSE TicksBefore(c - 1) + ChordTicks(midiSequence[c])

\* the chord (1-based) event k of track 1 belongs to: a pitch bend goes with
\* the note-on after it
ChordOfEvent(k) ==
  LET ordinal == Cardinality({j \in 1..k : ~IsPitchBend(noteTrack[j])})
                   + (IF IsPitchBend(noteTrack[k]) THEN 1 ELSE 0)
  IN Min({c \in 1..chordIndex : ordinal <= NoteEventsBefore(c)})

(* C26: when every chord has at least one note, adding up the delta-times   *)
(* of track 1 puts every note-on and pitch bend of chord k at the sum of    *)
(* the duration ticks of the chords before it, every note-off of chord k at *)
(* that tick plus its own duration ticks, and the end of track at the sum   *)
(* of all duration ticks, with duration ticks                               *)
(* round(duration * baseDuration * 480 * tempo / 60).                       *)
C26_AbsoluteTicks ==
  (\A c \in 1..Len(midiSequence) : Len(EncodedNotes(midiSequence[c])) >= 1) =>
    \A k \in 1..Len(noteTrack) :
      IF IsEndOfTrack(noteTrack[k]) THEN TickAt(k) = TicksBefore(Len(midiSequence))
      ELSE IF noteTrack[k].data[1] \in 128..143
           THEN TickAt(k) = TicksBefore(ChordOfEvent(k))
           ELSE TickAt(k) = TicksBefore(ChordOfEvent(k) - 1)

\* a second chord of three notes, one of them bent, after a first chord
C26_Witness ==
  /\ midiFile # <<>> /\ Len(midiSequence) = 2
  /\ Len(EncodedNotes(midiSequence[1])) = 3 /\ Len(EncodedNotes(midiSequence[2])) = 3
  /\ TicksBefore(1) > 0 /\ TicksBefore(2) > TicksBefore(1)
  /\ \E k \in 1..Len(noteTrack) :
       IsPitchBend(noteTrack[k]) /\ ChordOfEvent(k) = 2 /\ TickAt(k) = TicksBefore(1)
  /\ TickAt(Len(noteTrack)) = TicksBefore(2)

IsNoteOn(e) == e.data[1] \in 144..159
IsNoteOff(e) == e.data[1] \in 128..143

\* how many notes of the note number sound on the channel after event k of
\* track 1
Sounding(k, channel, note) ==
  Cardinality({j \in 1..k : noteTrack[j].data[1] = 144 + channel /\ noteTrack[j].data[2] = note})
    - Cardinality({j \in 1..k : noteTrack[j].data[1] = 128 + channel /\ noteTrack[j].data[2] = note})

\* the channel and note number pairs of the note-ons of track 1
Started == {<<noteTrack[j].data[1] - 144, noteTrack[j].data[2]>> :
              j \in {n \in 1..Len(noteTrack) : IsNoteOn(noteTrack[n])}}

\* event k of track 1 is the last note-off of its chord, or the end of track
ChordOver(k) ==
  \/ IsEndOfTrack(noteTrack[k])
  \/ IsNoteOff(noteTrack[k]) /\ (k = Len(noteTrack) \/ ~IsNoteOff(noteTrack[k + 1]))

(* C27: no note of track 1 is left hanging.  Counting the sounding notes of *)
(* each channel and note number along the track, every note-off ends a note *)
(* that a note-on of the same channel and note number started earlier in    *)
(* the same chord, and nothing sounds after the last note-off of a chord or *)
(* at the end of track; so also when pitches repeat in a chord and when     *)
(* more than 16 notes come to share channel 15.                             *)
C27_NoHangingNotes ==
  \A k \in 1..Len(noteTrack) :
    /\ IsNoteOff(noteTrack[k]) =>
         /\ Sounding(k - 1, noteTrack[k].data[1] - 128, noteTrack[k].data[2]) >= 1
         /\ \E j \in 1..(k - 1) :
              /\ noteTrack[j].data[1] = noteTrack[k].data[1] + 16
              /\ noteTrack[j].data[2] = noteTrack[k].data[2]
              /\ ChordOfEvent(j) = ChordOfEvent(k)
    /\ ChordOver(k) => \A p \in Started : Sounding(k, p[1], p[2]) = 0

\* two notes of one pitch sounding together on channel 15
C27_Witness ==
  /\ midiFile # <<>>
  /\ \E k \in 1..Len(noteTrack), note \in 0..127 :
       Sounding(k, 15, note) = 2 /\ Sounding(Len(noteTrack), 15, note) = 0

-----------------------------------------------------------------------------
(* Properties of the parser and the tuning engine together *)

\* validateChord returns true for a chord the parser made
PassesValidateChord(c) ==
  /\ ~Falsy(Str(c.fundamental))
  /\ ~IntervalsRejected(Arr(c.intervals))
  /\ ~DurationFieldRejected(Number(c.duration))

(* C24: every chord parseChordSequence returns passes validateChord; its    *)
(* fundamental in particular is a non-empty string, so that a line such as  *)
(* ': 1,3,5' is not returned as a chord.                                    *)
C24_ParsedChordsValid ==
  pc = "returned" =>
    \A k \in 1..Len(result) :
      PassesValidateChord(result[k]) /\ result[k].fundamental # <<>>

\* a frequency, or a factor of one, that is a finite number above 0
RECURSIVE PositiveFinite(_)
PositiveFinite(x) ==
  CASE x.kind = "a4" -> TRUE
    [] x.kind = "num" -> x.m > 0
    [] x.kind = "frac" -> x.n > 0 /\ x.d > 0
    [] x.kind = "times" -> PositiveFinite(x.a) /\ PositiveFinite(x.b)
    [] OTHER -> FALSE

(* C25: whenever calculateChord succeeds on a string fundamental, the       *)
(* fundamental frequency it resolved is a finite number above 0, and so is  *)
(* the frequency of every note; a text such as '0' or '-440' is not         *)
(* resolved to a frequency.                                                 *)
C25_PositiveFrequencies ==
  (chordResult.tag = "returned" /\ chordFundamental.type = "string") =>
    /\ PositiveFinite(chordResult.value.fundamental)
    /\ \A k \in 1..Len(chordResult.value.notes) :
         PositiveFinite(chordResult.value.notes[k].frequency)

-----------------------------------------------------------------------------
(* Properties of the page *)

\* the last line of a text
FinalLine(text) == Split(text, "\n")[Len(Split(text, "\n"))]

\* the place of a key on the keyboard, counted in semitones
KeyNumber(note) == ChromaticIndex(note) + 12 * WrittenOctave(note)

\* the keys chosen as intervals, as a set
ChosenKeys == {selectedIntervals[k] : k \in 1..Len(selectedIntervals)}

(* C30: for every fundamental key and every non-empty choice of interval    *)
(* keys, above or below the fundamental and pressed in any order, the line  *)
(* Add to Sequence appends to the text is parsed by parseChordSequence into *)
(* one chord with that fundamental and one token for each key, every token  *)
(* is resolved both by getIntervalRatio and by calculateEqualTemperament,   *)
(* and the semitone counts of the tokens are the distances of the keys from *)
(* the fundamental.                                                         *)
C30_KeyboardLine ==
  [][chordInput' # chordInput =>
       LET parsed == parseChordSequence(FinalLine(chordInput'))
       IN /\ parsed.tag = "returned"
          /\ Len(parsed.value) = 1
          /\ parsed.value[1].fundamental = selectedFundamental
          /\ Len(parsed.value[1].intervals) = Len(selectedIntervals)
          /\ \A k \in 1..Len(parsed.value[1].intervals) :
               /\ getIntervalRatio(parsed.value[1].intervals[k]).tag = "returned"
               /\ calculateEqualTemperament(parsed.value[1].intervals[k]).tag = "returned"
          /\ {calculateEqualTemperament(parsed.value[1].intervals[k]).value :
                k \in 1..Len(parsed.value[1].intervals)}
               = {[kind |-> "et", semitones |-> KeyNumber(n) - KeyNumber(selectedFundamental)] :
                    n \in ChosenKeys}
    ]_vars

\* what parseChordSequence makes of each text the box can hold
ParseOutcomes == {parseChordSequence(text) : text \in PageTexts \cup {<<>>}}

\* the expansion of a parsed chord list: a result for each chord, or nothing
\* when the parser or the tuning has rejected the text
ExpansionOfParsed ==
  [parsedChords \in ParseOutcomes |->
     IF parsedChords.tag = "returned"
          /\ \A k \in 1..Len(parsedChords.value) : ~ChordThrows(parsedChords.value[k])
     THEN [k \in 1..Len(parsedChords.value) |-> ProcessedChord(parsedChords.value[k])]
     ELSE <<>>]

\* the expansion of each text the box can hold
ExpansionOf ==
  [text \in PageTexts \cup {<<>>} |-> ExpansionOfParsed[parseChordSequence(text)]]

\* texts of the box that expand and texts that do not
Expandable(text) == ExpansionOf[text] # <<>>

\* the lists Play has handed to an AudioPlayer and an export to a generator,
\* each with the text that had been parsed last
HandedOn ==
  {[sequence |-> playbacks[p].chordSequence, parsed |-> playbacks[p].parsed] :
     p \in {q \in 1..Len(playbacks) : playbacks[q].fromPage}}
    \cup (IF exportCall = None THEN {}
          ELSE {[sequence |-> exportCall.sequence, parsed |-> exportCall.parsed]})

(* C23: after any sequence of Parse & Display actions the stored list is    *)
(* the expansion of the text parsed last, the whole of it and nothing else, *)
(* when that text parses and resolves, and is empty when it does not, with  *)
(* no chord of an earlier parse left in it; a press of Play and either MIDI *)
(* export hand on the expansion of the text parsed last before them, never  *)
(* an empty list.                                                           *)
C23_StoredList ==
  /\ lastParsed = None => pageFrequencies = <<>>
  /\ lastParsed # None => pageFrequencies = ExpansionOf[lastParsed.text]
  /\ \A call \in HandedOn :
       /\ call.sequence # <<>>
       /\ call.parsed # None
       /\ call.sequence = ExpansionOf[call.parsed.text]

\* a two-chord list has been played and exported, and a later parse has failed
C23_Witness ==
  /\ lastParsed # None /\ ~Expandable(lastParsed.text)
  /\ pageFrequencies = <<>>
  /\ Len(playbacks) = 1 /\ Len(playbacks[1].chordSequence) = 2
  /\ exportCall # None /\ Len(exportCall.sequence) = 2

-----------------------------------------------------------------------------
(* Properties of the AudioPlayer *)

\* the most recent playSequence of a player that has scheduled its oscillators
MostRecent(pl) ==
  {p \in Scheduled :
     /\ playbacks[p].player = pl
     /\ \A q \in Scheduled :
          playbacks[q].player = pl => playbacks[q].scheduled <= playbacks[p].scheduled}

(* C28: for one AudioPlayer, under every interleaving of playSequence calls, *)
(* stop calls and completion timers: while the oscillators of the most      *)
(* recent playSequence have neither finished nor been stopped,              *)
(* getPlayingState() is true and the oscillators are held in                *)
(* currentScheduledNodes, where a following stop() reaches them; the timer  *)
(* of an earlier playback does not reset the state of a later one.          *)
C28_PlayingState ==
  \A pl \in 1..Len(players) : \A p \in MostRecent(pl) :
    playbacks[p].phase = "sounding" =>
      /\ players[pl].isPlaying
      /\ p \in players[pl].currentScheduledNodes

(* C29: on the page, after any sequence of parse, play, stop and dark-mode  *)
(* actions, a press of Stop silences all audio a press of Play has started  *)
(* and that has not finished: while oscillators the page has started are    *)
(* sounding the Stop button is enabled, the AudioPlayer in audioPlayerRef   *)
(* is the instance that scheduled them, and it still holds them in          *)
(* currentScheduledNodes, where its stop() reaches them.                    *)
C29_StopSilences ==
  \A p \in 1..Len(playbacks) :
    (playbacks[p].fromPage /\ playbacks[p].phase = "sounding") =>
      /\ pageIsPlaying
      /\ audioPlayerRef = playbacks[p].player
      /\ p \in players[audioPlayerRef].currentScheduledNodes

=============================================================================
